---- MODULE Spec2Model ----
(***************************************************************************)
(* KLStream: the bounded MPMC queue (include/klstream/core/queue.hpp), the *)
(* operator instance and the schedulers (core/scheduler.hpp), the emit     *)
(* context (core/operator.hpp) and the worker loop (core/runtime.hpp).     *)
(*                                                                         *)
(* Granularity.  Every BoundedQueue method runs under the queue's mutex,   *)
(* so one critical section (from taking the lock to releasing it, or to    *)
(* the condition-variable wait that releases it) is one atomic step.  The  *)
(* notify_one that push/pop/push_for/pop_for issue after unlocking is a    *)
(* step of its own; the one try_push/try_pop issue under the lock is part  *)
(* of the critical section.  A thread waiting on a condition variable may  *)
(* wake without a notification (a spurious wakeup).                        *)
(*                                                                         *)
(* The runtime part is the pipeline source -> op -> sink of the            *)
(* backpressure test, op passing every event on with ctx.emit, run by two  *)
(* workers and one source thread.  Its queues are BoundedQueue<4096> in    *)
(* the code; here they have the model's Capacity, so that the source meets *)
(* a full queue after a few events.                                        *)
(***************************************************************************)
EXTENDS Integers, Sequences, FiniteSets, TLC

\* ------------------------------------------------------------------ bounds

\* BoundedQueue<Capacity>: Capacity is 2^LogCapacity (the static_assert of
\* queue.hpp:43 admits powers of two only).
LogCapacity == 1
\* Queue calls the client threads issue in a run, all methods together.
MaxCalls == 5
\* Spurious condition-variable wakeups of a run.
MaxSpurious == 1
\* Events the source of the pipeline generates (SequenceSource::Config::count).
SourceCount == 3
\* Loop iterations a worker thread makes in a run.
MaxIterations == 1

RECURSIVE Pow2(_)
Pow2(n) == IF n = 0 THEN 1 ELSE 2 * Pow2(n - 1)

Capacity == Pow2(LogCapacity)

\* The default-constructed Event of an unused or moved-from buffer slot.
NoEvent == 0

\* The queue the client threads operate on.
ClientQueue == 1

\* positions_ has no entry for a worker that has not called next.
NoCursor == -1

\* The pipeline source -> op -> sink of the backpressure test: the queue of
\* edge (source, op) and the queue of edge (op, sink).
SourceQueue == 1
SinkQueue == 2
\* input_queue_ == nullptr
NoQueue == 0
\* SequenceSource::Config of the source test: config.start, config.step
SeqStart == 1
SeqStep == 2
\* No OperatorInstance (nullptr)
NoInstance == "none"

Clients == {"c1", "c2"}
\* The threads of a test with several producers and a consumer
\* (MultipleProducers): the clients and one more.
Users == Clients \cup {"c3"}
Workers == {"w0", "w1"}
SourceThread == "src"
\* The thread that calls init, start, stop and await_completion.
MainThread == "main"
Threads == Users \cup Workers \cup {SourceThread, MainThread}
QIds == {SourceQueue, SinkQueue}

\* Worker::id_
WorkerId(w) == IF w = "w0" THEN 0 ELSE 1

\* execute_batch(64)
MaxBatch == 64

InstanceNames == {"source", "op", "sink"}

\* dynamic_cast<SourceOperator*>(op.get())
IsSource(i) == i = "source"

\* builder.connect(from, to, queue_capacity)
Edge(from, to, cap) ==
    [from_operator |-> from, to_operator |-> to, queue_capacity |-> cap]

\* The graph of the backpressure test: connect("source", "slow"),
\* connect("slow", "sink").
Pipeline == <<Edge("source", "op", Capacity), Edge("op", "sink", Capacity)>>

\* ------------------------------------------------------------------- state

VARIABLES
    queues,     \* queues[q]: buffer_, head_, tail_, size_, closed_, stats_
    pc,         \* pc[t]: where thread t is inside its queue call
    op,         \* op[t]: the queue method thread t is (or was last) in
    tq,         \* tq[t]: the queue that call is on
    arg,        \* arg[t]: the event passed to a push-like call
    retOk,      \* retOk[t]: the call returned true / an engaged optional
    retVal,     \* retVal[t]: the event a pop-like call returned
    why,        \* why[t]: the return path taken (history)
    eff,        \* eff[t]: what the call in progress changed so far (history)
    pushed,     \* pushed[q]: events accepted, in critical-section order (history)
    popped,     \* popped[q]: events handed out, in critical-section order (history)
    atClose,    \* atClose[q]: <<contents>> when close first took effect (history)
    nextVal,    \* next fresh event a client offers
    nCalls,     \* queue calls the clients issued so far
    nSpur,      \* spurious wakeups so far
    policy,     \* RuntimeConfig::scheduling_policy
    instances,  \* Runtime::instances_ / the scheduler's instance list, in order
    positions,  \* RoundRobinScheduler::positions_[worker_id]
    schedStats, \* the scheduler's stats_
    wpc,        \* wpc[w]: where worker w is in Worker::run
    winst,      \* winst[w]: the instance next() handed to worker w
    passed,     \* passed[w][i]: calls of next(w) in a row passing over i (history)
    wev,        \* wev[w]: the event worker w popped and is processing
    processed,  \* processed[w]: execute_batch's local counter
    iterations, \* iterations[w]: WorkerStats::iterations
    workerRunning, \* Worker::running_
    emitIdx,    \* emitIdx[t]: the output emit is pushing to (1-based)
    emitCount,  \* emitCount[t]: emit's local count
    spc,        \* where the source thread is in its loop
    current,    \* SequenceSource::current_
    generated,  \* SequenceSource::generated_
    stopRequested, \* SourceOperator::stop_requested_
    running,    \* Runtime::running_
    consumed,   \* events the sink consumed, in order (history)
    inProcess,  \* inProcess[i]: events process was entered with, in order (history)
    opStats,    \* opStats[i]: Operator::stats_ of instance i
    state,      \* Runtime::state_
    mpc,        \* where the main thread is in the Runtime method it called
    midx,       \* the index of the loop that method is in (1-based)
    mcall,      \* the Runtime method the main thread is in, or called last
    merr,       \* that method threw
    edges,      \* StreamGraphBuilder::edges_
    inputOf,    \* inputOf[i]: OperatorInstance::input_queue_ of instance i
    outputsOf,  \* outputsOf[i]: OperatorContext::outputs_ of instance i
    queueCap,   \* queueCap[q]: capacity() of the q-th queue of Runtime::queues_
    initCalls,     \* initCalls[i]: calls of init on operator i (history)
    shutdownCalls, \* shutdownCalls[i]: calls of shutdown on operator i (history)
    poolRunning,   \* WorkerPool::running_
    numWorkers,    \* RuntimeConfig::num_workers (not 0)
    srcDoneAtStop, \* the source thread had exited when stop was called (history)
    clientQ        \* clientQ[t]: the queue client thread t operates on

qvars == <<queues, pc, op, tq, arg, retOk, retVal, why, eff, pushed, popped, atClose>>

clientvars == <<nextVal, nCalls>>

\* What the main thread and Runtime::init own.
lcvars == <<state, mpc, midx, mcall, merr, edges, inputOf, outputsOf, queueCap,
            initCalls, shutdownCalls, poolRunning, numWorkers, srcDoneAtStop,
            clientQ>>

rtvars == <<policy, instances, positions, schedStats, wpc, winst, passed, wev,
            processed, iterations, workerRunning, emitIdx, emitCount, spc,
            current, generated, stopRequested, running, consumed, inProcess,
            opStats, lcvars>>

\* OperatorInstance::input_queue_ as Runtime::init wired it.
Input(i) == inputOf[i]

\* OperatorContext::outputs_ as Runtime::init wired it.
Outputs(i) == outputsOf[i]

\* config_.num_workers, the size of the pool.
NumWorkers == numWorkers

\* The workers WorkerPool::init created.
Pool == {w \in Workers : WorkerId(w) < NumWorkers}

vars == <<qvars, clientvars, nSpur, rtvars>>

\* ------------------------------------------------------- the queue's data

\* x & y on naturals.
RECURSIVE BitAnd(_, _)
BitAnd(x, y) ==
    IF x = 0 \/ y = 0 THEN 0
    ELSE (IF x % 2 = 1 /\ y % 2 = 1 THEN 1 ELSE 0) + 2 * BitAnd(x \div 2, y \div 2)

\* (i + 1) & (Capacity - 1)
NextIndex(i) == BitAnd(i + 1, Capacity - 1)

EmptyStats ==
    [push_count |-> 0, pop_count |-> 0, push_blocked_count |-> 0,
     pop_blocked_count |-> 0, current_size |-> 0, high_watermark |-> 0]

EmptyQueue ==
    [buffer |-> [i \in 0 .. Capacity - 1 |-> NoEvent],
     head |-> 0, tail |-> 0, size |-> 0, closed |-> FALSE, stats |-> EmptyStats]

\* QueueStats stats(): auto s = stats_; s.capacity = Capacity; return s;
QueueStats(q) ==
    [f \in DOMAIN q.stats \cup {"capacity"} |->
        IF f = "capacity" THEN Capacity ELSE q.stats[f]]

\* The events stored, oldest first.
RECURSIVE ContentsFrom(_, _, _)
ContentsFrom(q, i, n) ==
    IF n = 0 THEN <<>>
    ELSE <<q.buffer[i]>> \o ContentsFrom(q, NextIndex(i), n - 1)

Contents(q) == ContentsFrom(q, q.head, q.size)

\* A push that stores into a full queue instead of waiting.
PushNeverWaits(q) == FALSE

\* while (size_ == Capacity && !closed_)
PushMustWait(q) == q.size = Capacity /\ ~q.closed

\* A try_push that looks at the size only.
TryPushRejectsFullOnly(q) == q.size = Capacity

\* try_push without its test for a full queue.
TryPushRejectsClosedOnly(q) == q.closed

\* if (size_ == Capacity || closed_) return false;
TryPushRejects(q) == q.size = Capacity \/ q.closed

\* [this] { return size_ < Capacity || closed_; }
PushForPred(q) == q.size < Capacity \/ q.closed

\* pop that returns at once instead of waiting on an empty open queue.
PopNeverWaits(q) == FALSE

\* while (size_ == 0 && !closed_)
PopMustWait(q) == q.size = 0 /\ ~q.closed

\* [this] { return size_ > 0 || closed_; }
PopForPred(q) == q.size > 0 \/ q.closed

\* push that does not look at closed_ after its wait.
PushNeverRefused(q) == FALSE

\* if (closed_) return false;   (push, push_for after the wait)
PushRefused(q) == q.closed

\* if (size_ == 0) return std::nullopt;   (pop, try_pop, pop_for)
PopFindsNothing(q) == q.size = 0

CountPush(q) == [q EXCEPT !.stats.push_count = @ + 1]
CountPop(q) == [q EXCEPT !.stats.pop_count = @ + 1]
CountPushBlocked(q) == [q EXCEPT !.stats.push_blocked_count = @ + 1]
CountPopBlocked(q) == [q EXCEPT !.stats.pop_blocked_count = @ + 1]

\* buffer_[tail_] = event; tail_ = (tail_ + 1) & (Capacity - 1); size_++;
\* high_watermark and current_size follow.
Store(q, e) ==
    LET n == q.size + 1 IN
    [q EXCEPT !.buffer[q.tail] = e,
              !.tail = NextIndex(q.tail),
              !.size = n,
              !.stats.high_watermark = IF n > @ THEN n ELSE @,
              !.stats.current_size = n]

\* pop reading the newest slot, (tail_ - 1) & (Capacity - 1), not the oldest.
FrontNewest(q) == q.buffer[BitAnd(q.tail + Capacity - 1, Capacity - 1)]

\* The event std::move(buffer_[head_]) yields.
Front(q) == q.buffer[q.head]

\* pop that shrinks size_ but leaves head_ and the slot as they were.
TakeRepeats(q) ==
    [q EXCEPT !.size = q.size - 1,
              !.stats.current_size = q.size - 1]

\* head_ = (head_ + 1) & (Capacity - 1); size_--; current_size follows.  The
\* slot is left moved-from; it is not read again before Store overwrites it.
Take(q) ==
    [q EXCEPT !.buffer[q.head] = NoEvent,
              !.head = NextIndex(q.head),
              !.size = q.size - 1,
              !.stats.current_size = q.size - 1]

\* push_for whose timeout path forgets the counter.
PushForTimedOutUncounted(q) == q

\* push_for, wait_for returned false: stats_.push_blocked_count++; return false;
PushForTimedOut(q) == CountPushBlocked(q)

\* pop_for, wait_for returned false: stats_.pop_blocked_count++; return nullopt;
PopForTimedOut(q) == CountPopBlocked(q)

\* close that flips the flag instead of setting it.
MarkClosedToggles(q) == [q EXCEPT !.closed = ~@]

\* closed_ = true;
MarkClosed(q) == [q EXCEPT !.closed = TRUE]

\* --------------------------------------------------- condition variables

PushOps == {"push", "push_for"}
TryOps == {"try_push", "try_pop"}
PopOps == {"pop", "pop_for"}

\* Threads blocked in not_full_.wait / wait_for of queue q.
WaitingNotFull(q) == {t \in Threads : pc[t] = "waiting" /\ tq[t] = q /\ op[t] \in PushOps}

\* Threads blocked in not_empty_.wait / wait_for of queue q.
WaitingNotEmpty(q) == {t \in Threads : pc[t] = "waiting" /\ tq[t] = q /\ op[t] \in PopOps}

\* A notify_one that wakes nobody.
NotifyOneLost(f, W) == {f}

\* The outcomes of notify_one on waiter set W, as program-counter maps: one
\* waiter (any of them) is woken, or nothing happens when none waits.
NotifyOne(f, W) ==
    IF W = {} THEN {f} ELSE {[f EXCEPT ![w] = "woken"] : w \in W}

\* A close that wakes nobody.
NotifyNobody(f, W) == f

\* notify_all on waiter set W.
NotifyAll(f, W) == [t \in DOMAIN f |-> IF t \in W THEN "woken" ELSE f[t]]

\* ------------------------------------------------------ history of a call

NoEffect == [closedAtCall |-> FALSE, touched |-> FALSE, push_count |-> 0,
             pop_count |-> 0, push_blocked_count |-> 0, pop_blocked_count |-> 0]

\* The history of a call that starts on queue state a.
StartEffect(a) == [NoEffect EXCEPT !.closedAtCall = a.closed]

\* The state a caller can observe apart from the counters.
Observable(q) == <<Contents(q), q.size, q.closed>>

\* e with the difference between queue states a (before) and b (after) added.
Effect(e, a, b) ==
    [closedAtCall |-> e.closedAtCall,
     touched |-> e.touched \/ Observable(a) # Observable(b),
     push_count |-> e.push_count + (b.stats.push_count - a.stats.push_count),
     pop_count |-> e.pop_count + (b.stats.pop_count - a.stats.pop_count),
     push_blocked_count |-> e.push_blocked_count
         + (b.stats.push_blocked_count - a.stats.push_blocked_count),
     pop_blocked_count |-> e.pop_blocked_count
         + (b.stats.pop_blocked_count - a.stats.pop_blocked_count)]

\* --------------------------------------------------------------- initial

\* The queues as constructed and no call in progress.
QueuesFresh ==
    /\ queues = [q \in QIds |-> EmptyQueue]
    /\ pc = [t \in Threads |-> "idle"]
    /\ op = [t \in Threads |-> "none"]
    /\ tq = [t \in Threads |-> ClientQueue]
    /\ arg = [t \in Threads |-> NoEvent]
    /\ retOk = [t \in Threads |-> FALSE]
    /\ retVal = [t \in Threads |-> NoEvent]
    /\ why = [t \in Threads |-> "none"]
    /\ eff = [t \in Threads |-> NoEffect]
    /\ pushed = [q \in QIds |-> <<>>]
    /\ popped = [q \in QIds |-> <<>>]
    /\ atClose = [q \in QIds |-> <<>>]
    /\ nextVal = 1
    /\ nCalls = 0
    /\ nSpur = 0

\* The fresh queues, the client threads on the first of them.
QueueInit ==
    /\ QueuesFresh
    /\ clientQ = [t \in Clients |-> ClientQueue]

\* A permutation of the instance names: the order in which Runtime::init
\* meets the operators of the builder's unordered_map.
InstanceOrders ==
    {o \in [1 .. Cardinality(InstanceNames) -> InstanceNames] :
        \A i, j \in DOMAIN o : i # j => o[i] # o[j]}

EmptySchedStats == [total_scheduled |-> 0, idle_cycles |-> 0, work_stolen |-> 0]

\* Runtime::init, the loop over the edges: output_queues[from].push_back(queue)
\* from edge k on; the queue of the k-th edge is the k-th of queues_.
RECURSIVE OutputQueues(_, _, _)
OutputQueues(es, i, k) ==
    IF k > Len(es) THEN <<>>
    ELSE (IF es[k].from_operator = i THEN <<k>> ELSE <<>>)
         \o OutputQueues(es, i, k + 1)

\* Runtime::init, the loop over the edges: input_queues[to] = queue, a later
\* edge with the same destination replacing an earlier one; q is the entry
\* before edge k.
RECURSIVE InputQueue(_, _, _, _)
InputQueue(es, i, k, q) ==
    IF k > Len(es) THEN q
    ELSE InputQueue(es, i, k + 1, IF es[k].to_operator = i THEN k ELSE q)

\* The instances as Runtime::init wires them for edges es.
WiredInputs(es) == [i \in InstanceNames |-> InputQueue(es, i, 1, NoQueue)]
WiredOutputs(es) == [i \in InstanceNames |-> OutputQueues(es, i, 1)]

\* std::make_shared<Queue>() for every edge: the capacity of the queue type.
WiredCapacities(es) == [k \in 1 .. Len(es) |-> Capacity]

\* The coordinator before init (started = FALSE) or after start().
Coordinator(started) ==
    /\ state = IF started THEN "Running" ELSE "Created"
    /\ mpc = "idle"
    /\ midx = 0
    /\ mcall = "none"
    /\ merr = FALSE
    /\ inputOf = IF started THEN WiredInputs(edges)
                 ELSE [i \in InstanceNames |-> NoQueue]
    /\ outputsOf = IF started THEN WiredOutputs(edges)
                   ELSE [i \in InstanceNames |-> <<>>]
    /\ queueCap = IF started THEN WiredCapacities(edges) ELSE <<>>
    /\ initCalls = [i \in InstanceNames |-> IF started THEN 1 ELSE 0]
    /\ shutdownCalls = [i \in InstanceNames |-> 0]
    /\ poolRunning = started
    /\ srcDoneAtStop = FALSE

\* struct OperatorStats, all counters 0 (processing_time_ns is left out).
NoOperatorStats ==
    [events_received |-> 0, events_emitted |-> 0, events_dropped |-> 0,
     backpressure_events |-> 0]

\* record_received(), record_emitted(), record_dropped(),
\* record_backpressure() of instance i.
Record(st, i, f) == [st EXCEPT ![i][f] = @ + 1]

\* The runtime right after Runtime::start(): workers and the source thread
\* are about to enter their loops, nothing has been generated yet.
RuntimeWith(started, orders) ==
    /\ policy \in {"RoundRobin", "WorkStealing"}
    /\ instances \in orders
    /\ positions = [w \in Workers |-> NoCursor]
    /\ schedStats = EmptySchedStats
    /\ Coordinator(started)
    /\ wpc = [w \in Workers |-> IF started /\ w \in Pool THEN "top" ELSE "exited"]
    /\ winst = [w \in Workers |-> NoInstance]
    /\ passed = [w \in Workers |-> [i \in InstanceNames |-> 0]]
    /\ wev = [w \in Workers |-> NoEvent]
    /\ processed = [w \in Workers |-> 0]
    /\ iterations = [w \in Workers |-> 0]
    /\ workerRunning = [w \in Workers |-> started /\ w \in Pool]
    /\ emitIdx = [t \in Threads |-> 0]
    /\ emitCount = [t \in Threads |-> 0]
    /\ spc = IF started /\ \E n \in DOMAIN instances : IsSource(instances[n])
             THEN "loop" ELSE "exited"
    /\ current = SeqStart
    /\ generated = 0
    /\ stopRequested = FALSE
    /\ running = started
    /\ consumed = <<>>
    /\ inProcess = [i \in InstanceNames |-> <<>>]
    /\ opStats = [i \in InstanceNames |-> NoOperatorStats]

\* The runtime of a builder with the three operators.
RuntimeStarted(started) == RuntimeWith(started, InstanceOrders)

\* A queue on its own, used by client threads; no runtime.
Init ==
    /\ QueueInit
    /\ policy = "RoundRobin"
    /\ instances = <<"source", "op", "sink">>
    /\ edges = Pipeline
    /\ numWorkers = Cardinality(Workers)
    /\ RuntimeStarted(FALSE)

\* The pipeline running.
InitRT ==
    /\ QueueInit
    /\ edges = Pipeline
    /\ numWorkers = Cardinality(Workers)
    /\ RuntimeStarted(TRUE)

\* ---------------------------------------------------- steps of a call

\* The variables no step of a queue call changes.
outside == <<nextVal, nCalls, nSpur, rtvars>>

CanCall(t) == pc[t] \in {"idle", "done"}

Begin(t, o, q, ev) ==
    /\ op' = [op EXCEPT ![t] = o]
    /\ tq' = [tq EXCEPT ![t] = q]
    /\ arg' = [arg EXCEPT ![t] = ev]

Ret(t, ok, v, r) ==
    /\ retOk' = [retOk EXCEPT ![t] = ok]
    /\ retVal' = [retVal EXCEPT ![t] = v]
    /\ why' = [why EXCEPT ![t] = r]

\* Thread t's critical section leaves queue q as b; e0 is what its call had
\* changed before.
Commit(t, q, b, e0) ==
    /\ queues' = [queues EXCEPT ![q] = b]
    /\ eff' = [eff EXCEPT ![t] = Effect(e0, queues[q], b)]

\* t goes (back) to sleep on its condition variable.
Sleep(t) ==
    /\ pc' = [pc EXCEPT ![t] = "waiting"]
    /\ UNCHANGED <<retOk, retVal, why, pushed, popped>>

\* push / push_for past the wait: refused when closed, else stored; the
\* notify_one follows after the unlock.
PushTail(t, q, ev, b, e0) ==
    IF PushRefused(b)
    THEN /\ Commit(t, q, b, e0)
         /\ pc' = [pc EXCEPT ![t] = "done"]
         /\ Ret(t, FALSE, NoEvent, "closed")
         /\ UNCHANGED <<pushed, popped>>
    ELSE /\ Commit(t, q, Store(b, ev), e0)
         /\ pc' = [pc EXCEPT ![t] = "notify"]
         /\ Ret(t, TRUE, NoEvent, "ok")
         /\ pushed' = [pushed EXCEPT ![q] = Append(@, ev)]
         /\ UNCHANGED popped

\* The wait of push (a while loop counting every wait) and of push_for
\* (wait_for with a predicate), entered with the lock held and queue state b.
PushBody(t, q, ev, o, b, e0) ==
    IF o = "push"
    THEN IF PushMustWait(b)
         THEN Commit(t, q, CountPushBlocked(b), e0) /\ Sleep(t)
         ELSE PushTail(t, q, ev, b, e0)
    ELSE IF ~PushForPred(b)
         THEN Commit(t, q, b, e0) /\ Sleep(t)
         ELSE PushTail(t, q, ev, b, e0)

\* bool push(Event) / bool push_for(Event, timeout): lock, count, wait or go on.
PushCall(t, q, ev, o) ==
    /\ CanCall(t)
    /\ Begin(t, o, q, ev)
    /\ PushBody(t, q, ev, o, CountPush(queues[q]), StartEffect(queues[q]))
    /\ UNCHANGED atClose

\* A woken pusher has the lock again and tests its condition.
PushWake(t) ==
    /\ pc[t] = "woken"
    /\ op[t] \in PushOps
    /\ PushBody(t, tq[t], arg[t], op[t], queues[tq[t]], eff[t])
    /\ UNCHANGED <<op, tq, arg, atClose, outside>>

\* push_for: the deadline passes during the wait; wait_for returns the
\* predicate's value.
PushTimeout(t) ==
    /\ pc[t] = "waiting"
    /\ op[t] = "push_for"
    /\ LET q == tq[t]
           b == queues[q]
       IN IF PushForPred(b)
          THEN PushTail(t, q, arg[t], b, eff[t])
          ELSE /\ Commit(t, q, PushForTimedOut(b), eff[t])
               /\ pc' = [pc EXCEPT ![t] = "done"]
               /\ Ret(t, FALSE, NoEvent, "timeout")
               /\ UNCHANGED <<pushed, popped>>
    /\ UNCHANGED <<op, tq, arg, atClose, outside>>

\* not_empty_.notify_one() after the unlock; then the call returns true.
PushNotify(t) ==
    /\ pc[t] = "notify"
    /\ op[t] \in PushOps
    /\ \E f \in NotifyOne(pc, WaitingNotEmpty(tq[t])) :
           pc' = [f EXCEPT ![t] = "done"]
    /\ UNCHANGED <<queues, op, tq, arg, retOk, retVal, why, eff, pushed, popped,
                   atClose, outside>>

\* bool try_push(Event): one critical section, notify_one under the lock.
TryPushCall(t, q, ev) ==
    /\ CanCall(t)
    /\ Begin(t, "try_push", q, ev)
    /\ LET a == queues[q] IN
       IF TryPushRejects(a)
       THEN /\ Commit(t, q, a, StartEffect(a))
            /\ pc' = [pc EXCEPT ![t] = "done"]
            /\ Ret(t, FALSE, NoEvent, IF a.closed THEN "closed" ELSE "full")
            /\ UNCHANGED <<pushed, popped>>
       ELSE /\ Commit(t, q, Store(CountPush(a), ev), StartEffect(a))
            /\ \E f \in NotifyOne(pc, WaitingNotEmpty(q)) :
                   pc' = [f EXCEPT ![t] = "done"]
            /\ Ret(t, TRUE, NoEvent, "ok")
            /\ pushed' = [pushed EXCEPT ![q] = Append(@, ev)]
            /\ UNCHANGED popped
    /\ UNCHANGED atClose

\* pop / pop_for past the wait: nothing when empty, else the front event;
\* the notify_one follows after the unlock.
PopTail(t, q, b, e0) ==
    IF PopFindsNothing(b)
    THEN /\ Commit(t, q, b, e0)
         /\ pc' = [pc EXCEPT ![t] = "done"]
         /\ Ret(t, FALSE, NoEvent, "closed")
         /\ UNCHANGED <<pushed, popped>>
    ELSE /\ Commit(t, q, Take(b), e0)
         /\ pc' = [pc EXCEPT ![t] = "notify"]
         /\ Ret(t, TRUE, Front(b), "ok")
         /\ popped' = [popped EXCEPT ![q] = Append(@, Front(b))]
         /\ UNCHANGED pushed

PopBody(t, q, o, b, e0) ==
    IF o = "pop"
    THEN IF PopMustWait(b)
         THEN Commit(t, q, CountPopBlocked(b), e0) /\ Sleep(t)
         ELSE PopTail(t, q, b, e0)
    ELSE IF ~PopForPred(b)
         THEN Commit(t, q, b, e0) /\ Sleep(t)
         ELSE PopTail(t, q, b, e0)

\* optional<Event> pop() / pop_for(timeout)
PopCall(t, q, o) ==
    /\ CanCall(t)
    /\ Begin(t, o, q, NoEvent)
    /\ PopBody(t, q, o, CountPop(queues[q]), StartEffect(queues[q]))
    /\ UNCHANGED atClose

PopWake(t) ==
    /\ pc[t] = "woken"
    /\ op[t] \in PopOps
    /\ PopBody(t, tq[t], op[t], queues[tq[t]], eff[t])
    /\ UNCHANGED <<op, tq, arg, atClose, outside>>

PopTimeout(t) ==
    /\ pc[t] = "waiting"
    /\ op[t] = "pop_for"
    /\ LET q == tq[t]
           b == queues[q]
       IN IF PopForPred(b)
          THEN PopTail(t, q, b, eff[t])
          ELSE /\ Commit(t, q, PopForTimedOut(b), eff[t])
               /\ pc' = [pc EXCEPT ![t] = "done"]
               /\ Ret(t, FALSE, NoEvent, "timeout")
               /\ UNCHANGED <<pushed, popped>>
    /\ UNCHANGED <<op, tq, arg, atClose, outside>>

\* not_full_.notify_one() after the unlock; then the call returns the event.
PopNotify(t) ==
    /\ pc[t] = "notify"
    /\ op[t] \in PopOps
    /\ \E f \in NotifyOne(pc, WaitingNotFull(tq[t])) :
           pc' = [f EXCEPT ![t] = "done"]
    /\ UNCHANGED <<queues, op, tq, arg, retOk, retVal, why, eff, pushed, popped,
                   atClose, outside>>

\* optional<Event> try_pop(): one critical section, notify_one under the lock.
TryPopCall(t, q) ==
    /\ CanCall(t)
    /\ Begin(t, "try_pop", q, NoEvent)
    /\ LET a == queues[q] IN
       IF PopFindsNothing(a)
       THEN /\ Commit(t, q, a, StartEffect(a))
            /\ pc' = [pc EXCEPT ![t] = "done"]
            /\ Ret(t, FALSE, NoEvent, "empty")
            /\ UNCHANGED <<pushed, popped>>
       ELSE /\ Commit(t, q, Take(CountPop(a)), StartEffect(a))
            /\ \E f \in NotifyOne(pc, WaitingNotFull(q)) :
                   pc' = [f EXCEPT ![t] = "done"]
            /\ Ret(t, TRUE, Front(a), "ok")
            /\ popped' = [popped EXCEPT ![q] = Append(@, Front(a))]
            /\ UNCHANGED pushed
    /\ UNCHANGED atClose

\* void close(): the flag under the lock, then the two broadcasts.
CloseCall(t, q) ==
    /\ CanCall(t)
    /\ Begin(t, "close", q, NoEvent)
    /\ Commit(t, q, MarkClosed(queues[q]), StartEffect(queues[q]))
    /\ pc' = [pc EXCEPT ![t] = "close_nf"]
    /\ Ret(t, FALSE, NoEvent, "void")
    /\ atClose' = [atClose EXCEPT ![q] =
                      IF queues[q].closed THEN @ ELSE <<pushed[q]>>]
    /\ UNCHANGED <<pushed, popped>>

\* not_full_.notify_all()
CloseNotifyFull(t) ==
    /\ pc[t] = "close_nf"
    /\ pc' = [NotifyAll(pc, WaitingNotFull(tq[t])) EXCEPT ![t] = "close_ne"]
    /\ UNCHANGED <<queues, op, tq, arg, retOk, retVal, why, eff, pushed, popped,
                   atClose, outside>>

\* not_empty_.notify_all(); close returns.
CloseNotifyEmpty(t) ==
    /\ pc[t] = "close_ne"
    /\ pc' = [NotifyAll(pc, WaitingNotEmpty(tq[t])) EXCEPT ![t] = "done"]
    /\ UNCHANGED <<queues, op, tq, arg, retOk, retVal, why, eff, pushed, popped,
                   atClose, outside>>

\* A condition-variable wait returns without a notification.
SpuriousWake(t) ==
    /\ pc[t] = "waiting"
    /\ nSpur < MaxSpurious
    /\ nSpur' = nSpur + 1
    /\ pc' = [pc EXCEPT ![t] = "woken"]
    /\ UNCHANGED <<queues, op, tq, arg, retOk, retVal, why, eff, pushed, popped,
                   atClose, nextVal, nCalls, rtvars>>

\* ------------------------------------------------------ client threads

\* A client offers the next fresh event with one of the push methods.
ClientPushOp(t, o) ==
    /\ nCalls < MaxCalls
    /\ PushCall(t, clientQ[t], nextVal, o)
    /\ nextVal' = nextVal + 1
    /\ nCalls' = nCalls + 1
    /\ UNCHANGED <<nSpur, rtvars>>

ClientPush(t) == \E o \in PushOps : ClientPushOp(t, o)

ClientTryPush(t) ==
    /\ nCalls < MaxCalls
    /\ TryPushCall(t, clientQ[t], nextVal)
    /\ nextVal' = nextVal + 1
    /\ nCalls' = nCalls + 1
    /\ UNCHANGED <<nSpur, rtvars>>

ClientPopOp(t, o) ==
    /\ nCalls < MaxCalls
    /\ PopCall(t, clientQ[t], o)
    /\ nCalls' = nCalls + 1
    /\ UNCHANGED <<nextVal, nSpur, rtvars>>

ClientPop(t) == \E o \in PopOps : ClientPopOp(t, o)

ClientTryPop(t) ==
    /\ nCalls < MaxCalls
    /\ TryPopCall(t, clientQ[t])
    /\ nCalls' = nCalls + 1
    /\ UNCHANGED <<nextVal, nSpur, rtvars>>

ClientClose(t) ==
    /\ nCalls < MaxCalls
    /\ CloseCall(t, clientQ[t])
    /\ nCalls' = nCalls + 1
    /\ UNCHANGED <<nextVal, nSpur, rtvars>>

QueueStep(t) ==
    \/ PushWake(t)
    \/ PushTimeout(t)
    \/ PushNotify(t)
    \/ PopWake(t)
    \/ PopTimeout(t)
    \/ PopNotify(t)
    \/ CloseNotifyFull(t)
    \/ CloseNotifyEmpty(t)
    \/ SpuriousWake(t)

ClientStep(t) ==
    \/ ClientPush(t)
    \/ ClientTryPush(t)
    \/ ClientPop(t)
    \/ ClientTryPop(t)
    \/ ClientClose(t)

Next == \E t \in Clients : ClientStep(t) \/ QueueStep(t)

Spec == Init /\ [][Next]_vars

\* Three threads on one queue, each producer or consumer as it likes, using
\* push, try_push, pop and try_pop.
UserPush(t) ==
    /\ nCalls < MaxCalls
    /\ PushCall(t, ClientQueue, nextVal, "push")
    /\ nextVal' = nextVal + 1
    /\ nCalls' = nCalls + 1
    /\ UNCHANGED <<nSpur, rtvars>>

UserTryPush(t) ==
    /\ nCalls < MaxCalls
    /\ TryPushCall(t, ClientQueue, nextVal)
    /\ nextVal' = nextVal + 1
    /\ nCalls' = nCalls + 1
    /\ UNCHANGED <<nSpur, rtvars>>

UserPop(t) ==
    /\ nCalls < MaxCalls
    /\ PopCall(t, ClientQueue, "pop")
    /\ nCalls' = nCalls + 1
    /\ UNCHANGED <<nextVal, nSpur, rtvars>>

UserTryPop(t) ==
    /\ nCalls < MaxCalls
    /\ TryPopCall(t, ClientQueue)
    /\ nCalls' = nCalls + 1
    /\ UNCHANGED <<nextVal, nSpur, rtvars>>

NextWake ==
    \E t \in Users :
        \/ UserPush(t)
        \/ UserTryPush(t)
        \/ UserPop(t)
        \/ UserTryPop(t)
        \/ PushWake(t)
        \/ PushNotify(t)
        \/ PopWake(t)
        \/ PopNotify(t)
        \/ SpuriousWake(t)

\* A thread that holds a notification, or has stored or taken an event, is
\* scheduled again: it retests its condition, or calls notify_one and
\* returns.  Calls and spurious wakeups are not forced.
FairWake ==
    \A t \in Users :
        /\ WF_vars(PushWake(t))
        /\ WF_vars(PopWake(t))
        /\ WF_vars(PushNotify(t))
        /\ WF_vars(PopNotify(t))

SpecWake == Init /\ [][NextWake]_vars /\ FairWake

\* ------------------------------------------------------------ scheduler

\* A has_work that does not look for the input queue.
HasWorkUnlessEmpty(i) == Input(i) = NoQueue \/ queues[Input(i)].size # 0

\* OperatorInstance::has_work: input_queue_ && !input_queue_->empty()
HasWork(i) == Input(i) # NoQueue /\ queues[Input(i)].size # 0

\* The scan of RoundRobinScheduler::next from cursor pos with `checked`
\* instances probed: the cursor advances after every probe, the first
\* instance with work is returned.
RECURSIVE RRScan(_, _)
RRScan(pos, checked) ==
    IF checked >= Len(instances)
    THEN [inst |-> NoInstance, pos |-> pos]
    ELSE LET i == instances[(pos % Len(instances)) + 1] IN
         IF HasWork(i)
         THEN [inst |-> i, pos |-> pos + 1]
         ELSE RRScan(pos + 1, checked + 1)

\* auto& pos = positions_[worker_id]: the entry, value-initialised to 0 when
\* operator[] has to insert it.
Cursor(w) == IF positions[w] = NoCursor THEN 0 ELSE positions[w]

\* RoundRobinScheduler::next(worker_id): what it returns and leaves behind.
RoundRobinNext(w) ==
    IF Len(instances) = 0
    THEN {[inst |-> NoInstance, positions |-> positions, stats |-> schedStats]}
    ELSE LET r == RRScan(Cursor(w), 0)
             st == [schedStats EXCEPT !.total_scheduled = @ + 1]
         IN {[inst |-> r.inst,
              positions |-> [positions EXCEPT ![w] = r.pos],
              stats |-> IF r.inst = NoInstance
                        THEN [st EXCEPT !.idle_cycles = @ + 1]
                        ELSE st]}

\* SchedulerFactory::create, WorkStealing: per_worker[i % num_workers] gets
\* instances[i] (0-based i); the partition of worker id from 1-based index i on.
RECURSIVE Partition(_, _)
Partition(id, i) ==
    IF i > Len(instances) THEN <<>>
    ELSE (IF (i - 1) % NumWorkers = id THEN <<instances[i]>> ELSE <<>>)
         \o Partition(id, i + 1)

PerWorker(id) == Partition(id, 1)

\* for (auto* instance : part) if (instance->has_work()) return instance;
RECURSIVE FirstReady(_)
FirstReady(part) ==
    IF part = <<>> THEN NoInstance
    ELSE IF HasWork(Head(part)) THEN Head(part)
    ELSE FirstReady(Tail(part))

\* The stealing loop of WorkStealingScheduler::next from attempt `attempts`
\* on: the instances it can return, the victim of each attempt being drawn
\* from 0 .. num_workers - 1.
RECURSIVE Steal(_, _)
Steal(id, attempts) ==
    IF attempts >= NumWorkers THEN {NoInstance}
    ELSE UNION {IF victim = id
                THEN Steal(id, attempts + 1)
                ELSE IF FirstReady(PerWorker(victim)) # NoInstance
                     THEN {FirstReady(PerWorker(victim))}
                     ELSE Steal(id, attempts + 1) : victim \in 0 .. NumWorkers - 1}

\* WorkStealingScheduler::next(worker_id)
WorkStealingNext(w) ==
    LET st == [schedStats EXCEPT !.total_scheduled = @ + 1]
        local == FirstReady(PerWorker(WorkerId(w)))
    IN IF local # NoInstance
       THEN {[inst |-> local, positions |-> positions, stats |-> st]}
       ELSE {[inst |-> i, positions |-> positions,
              stats |-> IF i = NoInstance
                        THEN [st EXCEPT !.idle_cycles = @ + 1]
                        ELSE [st EXCEPT !.work_stolen = @ + 1]]
             : i \in Steal(WorkerId(w), 0)}

\* scheduler_->next(id_) for the scheduler SchedulerFactory::create built.
SchedulerNext(w) ==
    IF policy = "WorkStealing" THEN WorkStealingNext(w) ELSE RoundRobinNext(w)

\* --------------------------------------------------------- worker threads

\* The variables of the runtime a queue call made by a runtime thread leaves
\* alone, besides those its caller sets.
rtfixed == <<policy, instances, workerRunning, stopRequested, running, lcvars>>

\* The history of next(w) returning inst: the instances it passed over
\* although they had work are counted, the one it hands out and those without
\* work start again.
PassedOver(w, inst) ==
    [passed EXCEPT ![w] =
        [i \in InstanceNames |->
            IF i # inst /\ HasWork(i) THEN passed[w][i] + 1 ELSE 0]]

\* The history of a pop from queue q: an instance whose input queue it
\* leaves empty starts again.
PassedOnPop(q) ==
    IF queues'[q].size > 0 THEN passed
    ELSE [w \in Workers |->
            [i \in InstanceNames |-> IF Input(i) = q THEN 0 ELSE passed[w][i]]]

\* Worker::run, top of the loop: leave when running_ is false; else count
\* the iteration and ask the scheduler; with no instance, yield.  With
\* counted = FALSE the statistics (stats_.iterations, the scheduler's stats_)
\* are left out and the round-robin cursor, which next() reads modulo
\* instances_.size() only, is kept modulo that size: a worker can then loop
\* for ever in finitely many states.
W_Run(w, counted) ==
    /\ wpc[w] = "top"
    /\ IF ~workerRunning[w]
       THEN /\ wpc' = [wpc EXCEPT ![w] = "exited"]
            /\ UNCHANGED <<iterations, positions, schedStats, winst, passed,
                           processed>>
       ELSE /\ counted => iterations[w] < MaxIterations
            /\ iterations' = IF counted THEN [iterations EXCEPT ![w] = @ + 1]
                                         ELSE iterations
            /\ \E r \in SchedulerNext(w) :
                  /\ positions' = IF counted THEN r.positions
                                  ELSE [v \in DOMAIN positions |->
                                           IF r.positions[v] = NoCursor
                                           THEN NoCursor
                                           ELSE r.positions[v] % Len(instances)]
                  /\ schedStats' = IF counted THEN r.stats ELSE schedStats
                  /\ winst' = [winst EXCEPT ![w] = r.inst]
                  /\ passed' = IF counted THEN PassedOver(w, r.inst) ELSE passed
                  /\ wpc' = [wpc EXCEPT ![w] =
                                IF r.inst = NoInstance THEN "top" ELSE "batch"]
            /\ processed' = [processed EXCEPT ![w] = 0]
    /\ UNCHANGED <<qvars, clientvars, nSpur, rtfixed, wev, emitIdx, emitCount,
                   spc, current, generated, consumed, inProcess, opStats>>

\* The loop with its statistics, for a bounded number of iterations.
W_Next(w) == W_Run(w, TRUE)

\* The loop without them, for any number of iterations.
W_Loop(w) == W_Run(w, FALSE)

\* A batch without a limit.
BatchNeverFull(n, max_batch) == FALSE

\* while (processed < max_batch): the loop ends with max_batch events.
BatchFull(n, max_batch) == n >= max_batch

\* execute_batch(max_batch): while (processed < max_batch) try_pop; break
\* when empty.
W_Batch(w, max_batch) ==
    /\ wpc[w] = "batch"
    /\ LET q == Input(winst[w]) IN
       IF q = NoQueue \/ BatchFull(processed[w], max_batch)
       THEN /\ wpc' = [wpc EXCEPT ![w] = "top"]
            /\ UNCHANGED <<qvars, wev, passed>>
       ELSE /\ TryPopCall(w, q)
            /\ passed' = PassedOnPop(q)
            /\ IF PopFindsNothing(queues[q])
               THEN wpc' = [wpc EXCEPT ![w] = "top"] /\ UNCHANGED wev
               ELSE /\ wpc' = [wpc EXCEPT ![w] = "process"]
                    /\ wev' = [wev EXCEPT ![w] = Front(queues[q])]
    /\ UNCHANGED <<clientvars, nSpur, rtfixed, positions, schedStats, winst,
                   processed, iterations, emitIdx, emitCount, spc, current,
                   generated, consumed, inProcess, opStats>>

\* instance->execute_batch(64)
W_TryPop(w) == W_Batch(w, MaxBatch)

\* A batch above the capacity of the queues.
OversizedBatch == Capacity + 1

\* The batch at the scale of the model's queues: the code's 64 is below the
\* capacity 4096 of its queues and below the number of events of a run; the
\* largest batch that is not above Capacity keeps the first relation, and
\* SourceCount above Capacity keeps the second.
ScaledBatch == Capacity

W_TryPopScaled(w) == W_Batch(w, ScaledBatch)

\* operator_->process(*event, context_) is entered.  The sink consumes the
\* event.  The operator counts it as received and, with pass (the filter's
\* predicate; a map always passes), emits it: emit's loop starts with a
\* blocking push to the first output; ctx.emit's return value is not read
\* and record_emitted() follows it.  Without pass the filter calls
\* record_dropped().
W_Handle(w, passes) ==
    /\ wpc[w] = "process"
    /\ LET i == winst[w]
           outs == Outputs(i)
           received == IF i = "op" THEN Record(opStats, i, "events_received")
                                   ELSE opStats
       IN /\ inProcess' = [inProcess EXCEPT ![i] = Append(@, wev[w])]
          /\ \E pass \in passes :
               IF i = "op" /\ pass /\ outs # <<>>
               THEN /\ PushCall(w, outs[1], wev[w], "push")
                    /\ emitIdx' = [emitIdx EXCEPT ![w] = 1]
                    /\ emitCount' = [emitCount EXCEPT ![w] = 0]
                    /\ wpc' = [wpc EXCEPT ![w] = "emit"]
                    /\ opStats' = received
                    /\ UNCHANGED <<processed, consumed>>
               ELSE /\ consumed' = IF i = "sink" THEN Append(consumed, wev[w])
                                                  ELSE consumed
                    /\ opStats' = IF i # "op" THEN opStats
                                  ELSE IF pass
                                  THEN Record(received, i, "events_emitted")
                                  ELSE Record(received, i, "events_dropped")
                    /\ processed' = [processed EXCEPT ![w] = @ + 1]
                    /\ wpc' = [wpc EXCEPT ![w] = "batch"]
                    /\ UNCHANGED <<qvars, emitIdx, emitCount>>
    /\ UNCHANGED <<clientvars, nSpur, rtfixed, positions, schedStats, winst,
                   passed, wev,
                   iterations, spc, current, generated>>

\* The pass-through operator of the pipeline: a MapOperator, which emits
\* every event.
W_Process(w) == W_Handle(w, {TRUE})

\* A FilterOperator, whose predicate holds of an event or not.
W_Filter(w) == W_Handle(w, BOOLEAN)

\* An emit that counts every output.
EmitCountsAll(count, ok) == count + 1

\* if (output->push(event)) count++;
EmitCounts(count, ok) == count + (IF ok THEN 1 ELSE 0)

\* emit: a push returned; push to the next output, or return the count, on
\* which process returns and execute_batch counts the event.
W_Emitted(w) ==
    /\ wpc[w] = "emit"
    /\ pc[w] = "done"
    /\ LET outs == Outputs(winst[w])
           cnt == EmitCounts(emitCount[w], retOk[w])
       IN /\ emitCount' = [emitCount EXCEPT ![w] = cnt]
          /\ IF emitIdx[w] < Len(outs)
             THEN /\ PushCall(w, outs[emitIdx[w] + 1], wev[w], "push")
                  /\ emitIdx' = [emitIdx EXCEPT ![w] = @ + 1]
                  /\ UNCHANGED <<wpc, processed, opStats>>
             ELSE /\ processed' = [processed EXCEPT ![w] = @ + 1]
                  /\ wpc' = [wpc EXCEPT ![w] = "batch"]
                  /\ opStats' = Record(opStats, winst[w], "events_emitted")
                  /\ UNCHANGED <<qvars, emitIdx>>
    /\ UNCHANGED <<clientvars, nSpur, rtfixed, positions, schedStats, winst,
                   passed, wev,
                   iterations, spc, current, generated, consumed, inProcess>>

\* ------------------------------------------------------- the source thread

\* A source that does not consult its flag.
StopIgnored == FALSE

\* SourceOperator::should_stop(): stop_requested_.load()
ShouldStop == stopRequested

\* Runtime::run_sources, the loop test and SequenceSource::generate up to its
\* emit: the thread leaves when running_ is false, stop was requested or
\* count events were generated; else it emits Event{current_}.
S_Produce(count) ==
    /\ spc = "loop"
    /\ LET outs == Outputs("source") IN
       IF ~running \/ ShouldStop \/ generated >= count
       THEN /\ spc' = "exited"
            /\ UNCHANGED <<qvars, emitIdx, emitCount>>
       ELSE /\ outs # <<>>
            /\ PushCall(SourceThread, outs[1], current, "push")
            /\ emitIdx' = [emitIdx EXCEPT ![SourceThread] = 1]
            /\ emitCount' = [emitCount EXCEPT ![SourceThread] = 0]
            /\ spc' = "emit"
    /\ UNCHANGED <<clientvars, nSpur, rtfixed, positions, schedStats, wpc, winst,
                   passed,
                   wev, processed, iterations, current, generated, consumed,
                   inProcess, opStats>>

\* The source of the tests: SequenceSource with config.count events.
S_Generate == S_Produce(SourceCount)

\* emit returned to generate: with a count above 0 the value advances and the
\* event counts as generated; generate returns true.
S_Emitted ==
    /\ spc = "emit"
    /\ pc[SourceThread] = "done"
    /\ LET outs == Outputs("source")
           t == SourceThread
           cnt == EmitCounts(emitCount[t], retOk[t])
       IN /\ emitCount' = [emitCount EXCEPT ![t] = cnt]
          /\ IF emitIdx[t] < Len(outs)
             THEN /\ PushCall(t, outs[emitIdx[t] + 1], current, "push")
                  /\ emitIdx' = [emitIdx EXCEPT ![t] = @ + 1]
                  /\ UNCHANGED <<spc, current, generated, opStats>>
             ELSE /\ current' = IF cnt > 0 THEN current + SeqStep ELSE current
                  /\ generated' = IF cnt > 0 THEN generated + 1 ELSE generated
                  /\ opStats' = Record(opStats, "source",
                                       IF cnt > 0 THEN "events_emitted"
                                                  ELSE "backpressure_events")
                  /\ spc' = "loop"
                  /\ UNCHANGED <<qvars, emitIdx>>
    /\ UNCHANGED <<clientvars, nSpur, rtfixed, positions, schedStats, wpc, winst,
                   passed,
                   wev, processed, iterations, consumed, inProcess>>

RuntimeThreads == Workers \cup {SourceThread}

NextRT ==
    \/ \E w \in Workers : W_Next(w) \/ W_TryPop(w) \/ W_Process(w) \/ W_Emitted(w)
    \/ S_Generate
    \/ S_Emitted
    \/ \E t \in RuntimeThreads : PushWake(t) \/ PushNotify(t) \/ SpuriousWake(t)

SpecRT == InitRT /\ [][NextRT]_vars

\* RoundRobinScheduler::next step by step.  positions_ is a
\* std::unordered_map shared by the workers and read and written without a
\* lock: two workers inside positions_[worker_id] at once, one of them
\* inserting its entry, race.

\* Worker w is inside positions_[worker_id].
InLookup(w) == wpc[w] \in {"lookup", "raced"}

\* What a lookup that raced with an insertion can come to: the entry it
\* returns is, or is not, the one later lookups of the map find.
RaceOutcomes(raced) == IF raced THEN BOOLEAN ELSE {FALSE}

\* Worker::run, top of the loop, up to the call of positions_[worker_id] in
\* next, for a worker that makes at most calls calls: the lookups in progress
\* that it overlaps with race with it when one of the two has to insert.
W_Enter(w, calls) ==
    /\ wpc[w] = "top"
    /\ policy = "RoundRobin"
    /\ Len(instances) > 0
    /\ IF ~workerRunning[w]
       THEN /\ wpc' = [wpc EXCEPT ![w] = "exited"]
            /\ UNCHANGED <<iterations, schedStats>>
       ELSE /\ iterations[w] < calls
            /\ iterations' = [iterations EXCEPT ![w] = @ + 1]
            /\ schedStats' = [schedStats EXCEPT !.total_scheduled = @ + 1]
            /\ LET racing == {v \in Workers \ {w} :
                                /\ InLookup(v)
                                /\ NoCursor \in {positions[v], positions[w]}}
               IN wpc' = [v \in Workers |->
                             IF v = w THEN (IF racing # {} THEN "raced" ELSE "lookup")
                             ELSE IF v \in racing THEN "raced"
                             ELSE wpc[v]]
    /\ UNCHANGED <<qvars, clientvars, nSpur, rtfixed, wev, emitIdx, emitCount,
                   spc, current, generated, consumed, inProcess, opStats,
                   positions, winst, passed, processed>>

W_EnterNext(w) == W_Enter(w, MaxIterations)

\* positions_[worker_id] returns a reference to w's cursor.
W_Lookup(w) ==
    /\ InLookup(w)
    /\ \E lost \in RaceOutcomes(wpc[w] = "raced") :
          /\ wpc' = [wpc EXCEPT ![w] = IF lost THEN "scanLost" ELSE "scan"]
          /\ positions' = IF lost THEN positions
                          ELSE [positions EXCEPT ![w] = Cursor(w)]
    /\ UNCHANGED <<qvars, clientvars, nSpur, rtfixed, wev, emitIdx, emitCount,
                   spc, current, generated, consumed, inProcess, opStats,
                   iterations, schedStats, winst, passed, processed>>

\* The while loop of next and its return: the scan through the reference.
W_Scan(w) ==
    /\ wpc[w] \in {"scan", "scanLost"}
    /\ LET lost == wpc[w] = "scanLost"
           r == RRScan(IF lost THEN 0 ELSE positions[w], 0)
       IN /\ positions' = IF lost THEN positions
                          ELSE [positions EXCEPT ![w] = r.pos]
          /\ schedStats' = IF r.inst = NoInstance
                           THEN [schedStats EXCEPT !.idle_cycles = @ + 1]
                           ELSE schedStats
          /\ winst' = [winst EXCEPT ![w] = r.inst]
          /\ passed' = PassedOver(w, r.inst)
          /\ wpc' = [wpc EXCEPT ![w] =
                        IF r.inst = NoInstance THEN "top" ELSE "batch"]
    /\ processed' = [processed EXCEPT ![w] = 0]
    /\ UNCHANGED <<qvars, clientvars, nSpur, rtfixed, wev, emitIdx, emitCount,
                   spc, current, generated, consumed, inProcess, opStats,
                   iterations>>

\* The pipeline running under RoundRobin.
InitCursor == InitRT /\ policy = "RoundRobin"

NextCursor ==
    \/ \E w \in Workers : W_EnterNext(w) \/ W_Lookup(w) \/ W_Scan(w)
    \/ \E w \in Workers : W_TryPop(w) \/ W_Process(w) \/ W_Emitted(w)
    \/ S_Generate
    \/ S_Emitted
    \/ \E t \in RuntimeThreads : PushWake(t) \/ PushNotify(t) \/ SpuriousWake(t)

SpecCursor == InitCursor /\ [][NextCursor]_vars

\* As many calls of next by each worker as the scheduler has instances.
StarveCalls == Cardinality(InstanceNames)

W_EnterAgain(w) == W_Enter(w, StarveCalls)

\* WorkStealingScheduler::next with stats_.work_stolen++ step by step.
\* stats_ is a plain struct every worker increments without a lock: the
\* increment reads the counter and writes the value read plus one, and two
\* workers that steal at the same time race on it.

\* What the increment of worker w can have read: the counter as it is, or,
\* when another worker has written it since w's increment began, as it was
\* before that write.
StolenRead(w) ==
    IF wpc[w] = "stale"
    THEN {schedStats.work_stolen - 1, schedStats.work_stolen}
    ELSE {schedStats.work_stolen}

\* The calls of next a worker makes here: one that hands it an instance and
\* one more.
StealIterations == MaxIterations + 1

\* Worker::run, top of the loop, and next up to its return or, for a call
\* that steals, up to stats_.work_stolen++.
W_NextSteal(w) ==
    /\ wpc[w] = "top"
    /\ policy = "WorkStealing"
    /\ IF ~workerRunning[w]
       THEN /\ wpc' = [wpc EXCEPT ![w] = "exited"]
            /\ UNCHANGED <<iterations, schedStats, winst, passed, processed>>
       ELSE /\ iterations[w] < StealIterations
            /\ iterations' = [iterations EXCEPT ![w] = @ + 1]
            /\ \E r \in WorkStealingNext(w) :
                  LET stolen == r.stats.work_stolen # schedStats.work_stolen IN
                  /\ schedStats' = [r.stats EXCEPT
                                       !.work_stolen = schedStats.work_stolen]
                  /\ winst' = [winst EXCEPT ![w] = r.inst]
                  /\ passed' = PassedOver(w, r.inst)
                  /\ wpc' = [wpc EXCEPT ![w] =
                                IF stolen THEN "stealing"
                                ELSE IF r.inst = NoInstance THEN "top"
                                ELSE "batch"]
            /\ processed' = [processed EXCEPT ![w] = 0]
    /\ UNCHANGED <<qvars, clientvars, nSpur, rtfixed, wev, emitIdx, emitCount,
                   spc, current, generated, consumed, inProcess, opStats,
                   positions>>

\* stats_.work_stolen++; return instance;  The write makes stale what the
\* other workers inside their increment have read.
W_Stolen(w) ==
    /\ wpc[w] \in {"stealing", "stale"}
    /\ \E read \in StolenRead(w) :
          schedStats' = [schedStats EXCEPT !.work_stolen = read + 1]
    /\ wpc' = [v \in Workers |->
                  IF v = w THEN "batch"
                  ELSE IF wpc[v] = "stealing" THEN "stale"
                  ELSE wpc[v]]
    /\ UNCHANGED <<qvars, clientvars, nSpur, rtfixed, wev, emitIdx, emitCount,
                   spc, current, generated, consumed, inProcess, opStats,
                   positions, iterations, winst, passed, processed>>

\* The pipeline running under WorkStealing, the instances in the order
\* source, operator, sink: worker 0 has the source and the sink, worker 1
\* the operator.
InitSteal ==
    /\ InitRT
    /\ policy = "WorkStealing"
    /\ instances = <<"source", "op", "sink">>

NextSteal ==
    \/ \E w \in Workers : W_NextSteal(w) \/ W_Stolen(w)
    \/ \E w \in Workers : W_TryPop(w) \/ W_Process(w) \/ W_Emitted(w)
    \/ S_Generate
    \/ S_Emitted
    \/ \E t \in RuntimeThreads : PushWake(t) \/ PushNotify(t) \/ SpuriousWake(t)

SpecSteal == InitSteal /\ [][NextSteal]_vars

\* The calls of execute_batch each of the threads makes.
DirectCalls == MaxIterations + 1

\* A caller of execute_batch other than the scheduler loop, as the tests of
\* OperatorInstance are: thread w calls execute_batch on any instance.
W_Direct(w) ==
    /\ wpc[w] = "top"
    /\ iterations[w] < DirectCalls
    /\ iterations' = [iterations EXCEPT ![w] = @ + 1]
    /\ \E i \in InstanceNames : winst' = [winst EXCEPT ![w] = i]
    /\ wpc' = [wpc EXCEPT ![w] = "batch"]
    /\ processed' = [processed EXCEPT ![w] = 0]
    /\ UNCHANGED <<qvars, clientvars, nSpur, rtfixed, wev, emitIdx, emitCount,
                   spc, current, generated, consumed, inProcess, opStats,
                   positions, schedStats, passed>>

\* The wired pipeline with its source running and two threads that call
\* execute_batch.
InitBatch ==
    /\ InitRT
    /\ policy = "RoundRobin"
    /\ instances = <<"source", "op", "sink">>

NextBatch ==
    \/ \E w \in Workers :
          W_Direct(w) \/ W_TryPopScaled(w) \/ W_Process(w) \/ W_Emitted(w)
    \/ S_Generate
    \/ S_Emitted
    \/ \E t \in RuntimeThreads : PushWake(t) \/ PushNotify(t) \/ SpuriousWake(t)

SpecBatch == InitBatch /\ [][NextBatch]_vars

\* A builder without operators and edges: the instance list is empty.
NoGraph == <<>>

\* The pipeline running, or the runtime of an empty builder running: its
\* workers call next on a scheduler without instances.
InitSched ==
    \/ InitRT
    \/ /\ QueueInit
       /\ edges = NoGraph
       /\ numWorkers = Cardinality(Workers)
       /\ RuntimeWith(TRUE, {<<>>})

SpecSched == InitSched /\ [][NextRT]_vars

\* ------------------------------------------------------- the main thread

\* What no Runtime method changes.
mfixed == <<clientvars, nSpur, policy, instances, positions, schedStats, winst,
            passed, wev, processed, iterations, emitIdx, emitCount, current, generated,
            consumed, inProcess, opStats, edges, numWorkers, clientQ>>

\* An init that does not look at the state.
InitAlwaysApplies(st) == TRUE

\* if (state_ != RuntimeState::Created) throw
InitApplies(st) == st = "Created"

\* if (state_ != RuntimeState::Initialized) throw
StartApplies(st) == st = "Initialized"

\* A stop that does not look at the state.
StopAlwaysApplies(st) == TRUE

\* if (state_ != RuntimeState::Running) return
StopApplies(st) == st = "Running"

\* A stop that does not wait for the source threads.
SourcesNotAwaited == TRUE

\* t.join() has returned for every source thread.
SourcesJoined == spc = "exited"

\* A pool that does not wait for its workers.
WorkersNotAwaited == TRUE

\* worker->join() has returned for every worker of the pool.
WorkersJoined == \A w \in Pool : wpc[w] = "exited"

\* An init loop that leaves the operators out.
InitSkipped(calls, i) == calls

\* instance->op()->init(instance->context())
InitCalled(calls, i) == [calls EXCEPT ![i] = @ + 1]

\* instance->op()->shutdown(instance->context())
ShutdownCalled(calls, i) == [calls EXCEPT ![i] = @ + 1]

\* queues_.size()
NumQueues == Len(queueCap)

\* The main thread is between two calls and the Runtime is alive.
MainIdle == mpc = "idle"

\* Runtime::init(builder): it throws unless state_ is Created; else it
\* creates a queue per edge, the instances with their inputs and outputs,
\* the scheduler and the pool, and goes on to initialise the operators.
RtInit ==
    /\ MainIdle
    /\ mcall' = "init"
    /\ IF ~InitApplies(state)
       THEN /\ merr' = TRUE
            /\ UNCHANGED <<inputOf, outputsOf, queueCap, mpc, midx>>
       ELSE /\ merr' = FALSE
            /\ inputOf' = WiredInputs(edges)
            /\ outputsOf' = WiredOutputs(edges)
            /\ queueCap' = WiredCapacities(edges)
            /\ mpc' = "init_ops"
            /\ midx' = 1
    /\ UNCHANGED <<mfixed, srcDoneAtStop, qvars, state, initCalls, shutdownCalls, poolRunning,
                   workerRunning, wpc, spc, running, stopRequested>>

\* Runtime::init, the last loop: instance->op()->init(instance->context()) for
\* the instances in order, then state_ = Initialized.
RtInitOperator ==
    /\ mpc = "init_ops"
    /\ IF midx <= Len(instances)
       THEN /\ initCalls' = InitCalled(initCalls, instances[midx])
            /\ midx' = midx + 1
            /\ UNCHANGED <<state, mpc>>
       ELSE /\ state' = "Initialized"
            /\ mpc' = "idle"
            /\ UNCHANGED <<initCalls, midx>>
    /\ UNCHANGED <<mfixed, srcDoneAtStop, qvars, mcall, merr, inputOf, outputsOf, queueCap,
                   shutdownCalls, poolRunning, workerRunning, wpc, spc, running,
                   stopRequested>>

\* Runtime::start(): it throws unless state_ is Initialized; else running_
\* is set, the state is Running, every worker of the pool and the thread of
\* the source are started.
RtStart ==
    /\ MainIdle
    /\ mcall' = "start"
    /\ IF ~StartApplies(state)
       THEN /\ merr' = TRUE
            /\ UNCHANGED <<state, running, workerRunning, wpc, poolRunning, spc>>
       ELSE /\ merr' = FALSE
            /\ running' = TRUE
            /\ state' = "Running"
            /\ workerRunning' = [w \in Workers |-> w \in Pool]
            /\ wpc' = [w \in Workers |-> IF w \in Pool THEN "top" ELSE wpc[w]]
            /\ poolRunning' = TRUE
            /\ spc' = "loop"
    /\ UNCHANGED <<mfixed, srcDoneAtStop, qvars, mpc, midx, inputOf, outputsOf, queueCap,
                   initCalls, shutdownCalls, stopRequested>>

\* Runtime::stop(), called by the user (dtor = FALSE) or by ~Runtime: it
\* returns at once unless state_ is Running; else the state is ShuttingDown and
\* the source is asked to stop.
RtStop(dtor) ==
    /\ MainIdle
    /\ mcall' = IF dtor THEN "dtor" ELSE "stop"
    /\ merr' = FALSE
    /\ IF ~StopApplies(state)
       THEN /\ mpc' = IF dtor THEN "gone" ELSE "idle"
            /\ UNCHANGED <<state, stopRequested, srcDoneAtStop>>
       ELSE /\ state' = "ShuttingDown"
            /\ stopRequested' = TRUE
            /\ mpc' = "join_sources"
            /\ srcDoneAtStop' = (spc = "exited")
    /\ UNCHANGED <<mfixed, qvars, midx, inputOf, outputsOf, queueCap, initCalls,
                   shutdownCalls, poolRunning, workerRunning, wpc, spc, running>>

\* stop: t.join() for the source threads returns.
RtJoinSources ==
    /\ mpc = "join_sources"
    /\ SourcesJoined
    /\ mpc' = "drain"
    /\ midx' = 1
    /\ UNCHANGED <<mfixed, srcDoneAtStop, qvars, state, mcall, merr, inputOf, outputsOf, queueCap,
                   initCalls, shutdownCalls, poolRunning, workerRunning, wpc, spc,
                   running, stopRequested>>

\* drain_queues: one queue->empty() of the scan; a queue that is not empty
\* makes the scan start over after the sleep, a scan that finds them all
\* empty ends the drain, and stop goes on with running_.store(false).
RtDrain ==
    /\ mpc = "drain"
    /\ IF midx > NumQueues
       THEN /\ running' = FALSE
            /\ mpc' = "close"
            /\ midx' = 1
       ELSE /\ midx' = IF queues[midx].size # 0 THEN 1 ELSE midx + 1
            /\ UNCHANGED <<running, mpc>>
    /\ UNCHANGED <<mfixed, srcDoneAtStop, qvars, state, mcall, merr, inputOf, outputsOf, queueCap,
                   initCalls, shutdownCalls, poolRunning, workerRunning, wpc, spc,
                   stopRequested>>

\* stop: queue->close() for the next queue; after the last, WorkerPool::stop
\* up to its joins: nothing unless running_, else every Worker::stop.
RtClose ==
    /\ mpc = "close"
    /\ CanCall(MainThread)
    /\ IF midx <= NumQueues
       THEN /\ CloseCall(MainThread, midx)
            /\ midx' = midx + 1
            /\ UNCHANGED <<mpc, poolRunning, workerRunning>>
       ELSE /\ mpc' = "join_workers"
            /\ poolRunning' = FALSE
            /\ workerRunning' = [w \in Workers |-> workerRunning[w] /\ ~poolRunning]
            /\ UNCHANGED <<qvars, midx>>
    /\ UNCHANGED <<mfixed, srcDoneAtStop, state, mcall, merr, inputOf, outputsOf, queueCap,
                   initCalls, shutdownCalls, wpc, spc, running, stopRequested>>

\* WorkerPool::stop: worker->join() returns for every worker.
RtJoinWorkers ==
    /\ mpc = "join_workers"
    /\ WorkersJoined
    /\ mpc' = "shutdown"
    /\ midx' = 1
    /\ UNCHANGED <<mfixed, srcDoneAtStop, qvars, state, mcall, merr, inputOf, outputsOf, queueCap,
                   initCalls, shutdownCalls, poolRunning, workerRunning, wpc, spc,
                   running, stopRequested>>

\* stop, the last loop: instance->op()->shutdown(instance->context()) for the
\* instances in order, then state_ = Stopped.
RtShutdown ==
    /\ mpc = "shutdown"
    /\ IF midx <= Len(instances)
       THEN /\ shutdownCalls' = ShutdownCalled(shutdownCalls, instances[midx])
            /\ midx' = midx + 1
            /\ UNCHANGED <<state, mpc>>
       ELSE /\ state' = "Stopped"
            /\ mpc' = IF mcall = "dtor" THEN "gone" ELSE "idle"
            /\ UNCHANGED <<shutdownCalls, midx>>
    /\ UNCHANGED <<mfixed, srcDoneAtStop, qvars, mcall, merr, inputOf, outputsOf, queueCap,
                   initCalls, poolRunning, workerRunning, wpc, spc, running,
                   stopRequested>>

\* Runtime::await_completion() is called ...
RtAwait ==
    /\ MainIdle
    /\ mcall' = "await"
    /\ merr' = FALSE
    /\ mpc' = "await"
    /\ UNCHANGED <<mfixed, srcDoneAtStop, qvars, state, midx, inputOf, outputsOf, queueCap,
                   initCalls, shutdownCalls, poolRunning, workerRunning, wpc, spc,
                   running, stopRequested>>

\* ... and returns when the joins of the source threads have returned.
RtAwaited ==
    /\ mpc = "await"
    /\ SourcesJoined
    /\ mpc' = "idle"
    /\ UNCHANGED <<mfixed, srcDoneAtStop, qvars, state, midx, mcall, merr, inputOf, outputsOf,
                   queueCap, initCalls, shutdownCalls, poolRunning, workerRunning,
                   wpc, spc, running, stopRequested>>

\* A step of the main thread.
MainStep ==
    \/ RtInit
    \/ RtInitOperator
    \/ RtStart
    \/ RtStop(FALSE)
    \/ RtStop(TRUE)
    \/ RtJoinSources
    \/ RtDrain
    \/ RtClose
    \/ CloseNotifyFull(MainThread)
    \/ CloseNotifyEmpty(MainThread)
    \/ RtJoinWorkers
    \/ RtShutdown
    \/ RtAwait
    \/ RtAwaited

\* A step of a worker or of the source thread.
RuntimeStep ==
    \/ \E w \in Workers :
          W_Loop(w) \/ W_TryPopScaled(w) \/ W_Process(w) \/ W_Emitted(w)
    \/ S_Generate
    \/ S_Emitted
    \/ \E t \in RuntimeThreads : PushWake(t) \/ PushNotify(t) \/ SpuriousWake(t)

\* A Runtime from its construction on: the graph of the pipeline, either
\* policy, any order of the instances, num_workers = 1 as in the
\* backpressure test.
InitLife ==
    /\ QueueInit
    /\ edges = Pipeline
    /\ numWorkers = 1
    /\ RuntimeStarted(FALSE)

NextLife == MainStep \/ RuntimeStep

SpecLife == InitLife /\ [][NextLife]_vars

\* The backpressure test's runtime after start(): the pipeline, RoundRobin,
\* one worker, any order of the instances.
InitStop ==
    /\ QueueInit
    /\ edges = Pipeline
    /\ numWorkers = 1
    /\ RuntimeStarted(TRUE)
    /\ policy = "RoundRobin"

\* The steps of stop() after it was called.
StopStep ==
    \/ RtJoinSources
    \/ RtDrain
    \/ RtClose
    \/ CloseNotifyFull(MainThread)
    \/ CloseNotifyEmpty(MainThread)
    \/ RtJoinWorkers
    \/ RtShutdown

\* The steps of worker w.
WorkerStep(w) ==
    \/ W_Loop(w)
    \/ W_TryPopScaled(w)
    \/ W_Process(w)
    \/ W_Emitted(w)
    \/ PushWake(w)
    \/ PushNotify(w)

\* The steps of the source thread.
SourceStep ==
    \/ S_Generate
    \/ S_Emitted
    \/ PushWake(SourceThread)
    \/ PushNotify(SourceThread)

\* stop() is called at any moment, once or again, while the threads run.
NextStop ==
    \/ RtStop(FALSE)
    \/ StopStep
    \/ \E w \in Workers : WorkerStep(w)
    \/ SourceStep
    \/ \E t \in RuntimeThreads : SpuriousWake(t)

\* The operating system schedules every thread that can run: the main
\* thread inside stop(), each worker and the source thread take their next
\* step when it stays possible.  The call of stop() itself and spurious
\* wakeups are not forced.
FairThreads ==
    /\ WF_vars(StopStep)
    /\ \A w \in Workers : WF_vars(WorkerStep(w))
    /\ WF_vars(SourceStep)

SpecStop == InitStop /\ [][NextStop]_vars /\ FairThreads

\* The same runtime under WorkStealing: the one worker's partition is the
\* whole of instances_, in any order.
InitProgress ==
    /\ QueueInit
    /\ edges = Pipeline
    /\ numWorkers = 1
    /\ RuntimeStarted(TRUE)
    /\ policy = "WorkStealing"

SpecProgress == InitProgress /\ [][NextStop]_vars /\ FairThreads

\* The steps of worker w when the operator of the pipeline is a filter.
WorkerStepFilter(w) ==
    \/ W_Loop(w)
    \/ W_TryPopScaled(w)
    \/ W_Filter(w)
    \/ W_Emitted(w)
    \/ PushWake(w)
    \/ PushNotify(w)

\* The pipeline source -> filter -> sink, and stop() called at any moment.
NextFilter ==
    \/ RtStop(FALSE)
    \/ StopStep
    \/ \E w \in Workers : WorkerStepFilter(w)
    \/ SourceStep
    \/ \E t \in RuntimeThreads : SpuriousWake(t)

SpecFilter == InitStop /\ [][NextFilter]_vars

\* More events than the queues of the pipeline and the workers can hold: a
\* source that does not run out before everything downstream is full.
AmpleCount == Cardinality(QIds) * Capacity + Cardinality(Workers) + 1

S_GenerateAmple == S_Produce(AmpleCount)

\* Worker w is inside the sink's process call.
InSink(w) == wpc[w] = "process" /\ winst[w] = "sink"

\* The steps of worker w when the sink's process call does not return: a
\* worker that entered it stays there.
WorkerStepStalled(w) ==
    \/ W_Loop(w)
    \/ W_TryPop(w)
    \/ ~InSink(w) /\ W_Process(w)
    \/ W_Emitted(w)
    \/ PushWake(w)
    \/ PushNotify(w)

\* The steps of the source thread with the ample source.
SourceStepAmple ==
    \/ S_GenerateAmple
    \/ S_Emitted
    \/ PushWake(SourceThread)
    \/ PushNotify(SourceThread)

\* The pipeline running on two workers with a sink that has stopped
\* consuming.
NextStalled ==
    \/ \E w \in Workers : WorkerStepStalled(w)
    \/ SourceStepAmple
    \/ \E t \in RuntimeThreads : SpuriousWake(t)

\* Every thread that can run is scheduled.
FairStalled ==
    /\ \A w \in Workers : WF_vars(WorkerStepStalled(w))
    /\ WF_vars(SourceStepAmple)

\* The pipeline of the backpressure test running under RoundRobin, the
\* instances in the order source, operator, sink.
InitStalled ==
    /\ InitRT
    /\ policy = "RoundRobin"
    /\ instances = <<"source", "op", "sink">>

SpecStalled == InitStalled /\ [][NextStalled]_vars /\ FairStalled

\* A source with more events than the queues, the workers and the source
\* thread can hold together.
PlentyCount == AmpleCount + 1

S_GeneratePlenty == S_Produce(PlentyCount)

\* The steps of the source thread with that source.
SourceStepPlenty ==
    \/ S_GeneratePlenty
    \/ S_Emitted
    \/ PushWake(SourceThread)
    \/ PushNotify(SourceThread)

\* The pipeline with a fast source and a sink that does not return; the
\* threads run at any relative speed.
NextBounded ==
    \/ \E w \in Workers : WorkerStepStalled(w)
    \/ SourceStepPlenty
    \/ \E t \in RuntimeThreads : SpuriousWake(t)

SpecBounded == InitStalled /\ [][NextBounded]_vars

\* The capacities connect() is called with: the default, which is the
\* capacity of the Queue type, and another one.
EdgeCapacities == {Capacity, 2 * Capacity}

\* The edges connect() can declare between existing operators: out of the
\* source or the operator, into the operator or the sink.
EdgeChoices ==
    {Edge(from, to, cap) : from \in {"source", "op"}, to \in {"op", "sink"},
                           cap \in EdgeCapacities} \ 
    {Edge(i, i, cap) : i \in InstanceNames, cap \in EdgeCapacities}

\* The graphs of a builder: the edges in the order of the connect() calls,
\* at most as many as the model has queues.
Graphs == UNION {[1 .. n -> EdgeChoices] : n \in 0 .. Cardinality(QIds)}

\* A Runtime constructed, about to be initialised with any of the graphs.
InitWire ==
    /\ QueueInit
    /\ edges \in Graphs
    /\ numWorkers = 1
    /\ RuntimeStarted(FALSE)
    /\ policy = "RoundRobin"

NextWire == RtInit \/ RtInitOperator

SpecWire == InitWire /\ [][NextWire]_vars

\* A graph whose source has two outputs: connect("source", "op"),
\* connect("source", "sink").
FanOut == <<Edge("source", "op", Capacity), Edge("source", "sink", Capacity)>>

\* The fan-out graph started; the two client threads stand for the consumers
\* and for whoever closes the queues, each on one of the source's outputs.
InitEmit ==
    /\ QueuesFresh
    /\ clientQ \in [Clients -> QIds]
    /\ edges = FanOut
    /\ numWorkers = 1
    /\ RuntimeStarted(TRUE)
    /\ policy = "RoundRobin"
    /\ instances = <<"source", "op", "sink">>

\* One of the source's outputs is open.
OutputOpen ==
    \E n \in DOMAIN Outputs("source") : ~queues[Outputs("source")[n]].closed

\* The source thread emits each event to its two outputs while the queues
\* are popped without blocking and closed at any moment.  With every output
\* closed generate repeats the same refused emit for ever, counting the
\* pushes: the source is followed until the emit in progress returns.
NextEmit ==
    \/ OutputOpen /\ S_Generate
    \/ S_Emitted
    \/ PushWake(SourceThread)
    \/ PushNotify(SourceThread)
    \/ SpuriousWake(SourceThread)
    \/ \E t \in Clients :
          \/ ClientTryPop(t)
          \/ ClientClose(t)
          \/ CloseNotifyFull(t)
          \/ CloseNotifyEmpty(t)

SpecEmit == InitEmit /\ [][NextEmit]_vars

\* The steps of the source thread in the fan-out graph.
SourceStepEmit ==
    \/ OutputOpen /\ S_Generate
    \/ S_Emitted
    \/ PushWake(SourceThread)
    \/ PushNotify(SourceThread)

\* A close() in progress goes on to its notify_all calls.
CloseCompletes(t) == CloseNotifyFull(t) \/ CloseNotifyEmpty(t)

\* The fan-out graph with one consumer per output; the source thread is
\* scheduled whenever it can run and a close() that has begun returns; the
\* consumers pop and close when they like.
InitEmitFair == InitEmit /\ clientQ = [t \in Clients |-> IF t = "c1" THEN 1 ELSE 2]

FairEmit ==
    /\ WF_vars(SourceStepEmit)
    /\ \A t \in Clients : WF_vars(CloseCompletes(t))

SpecEmitFair == InitEmitFair /\ [][NextEmit]_vars /\ FairEmit

\* The fan-out graph running under RoundRobin with two workers, the operator
\* first in instances_: the source thread alone fills both input queues.
\* Worker 1 keeps calling next, worker 0 calls it as in the other
\* specifications.
InitStarve ==
    /\ QueueInit
    /\ edges = FanOut
    /\ numWorkers = Cardinality(Workers)
    /\ RuntimeStarted(TRUE)
    /\ policy = "RoundRobin"
    /\ instances = <<"op", "sink", "source">>

NextStarve ==
    \/ \E w \in Workers :
          \/ WorkerId(w) = 0 /\ W_EnterNext(w)
          \/ WorkerId(w) # 0 /\ W_EnterAgain(w)
          \/ W_Lookup(w)
          \/ W_Scan(w)
    \/ \E w \in Workers : W_TryPopScaled(w) \/ W_Process(w)
    \/ S_Generate
    \/ S_Emitted
    \/ PushWake(SourceThread)
    \/ PushNotify(SourceThread)

SpecStarve == InitStarve /\ [][NextStarve]_vars

\* Threads scheduled fairly: a thread that can take the next step of a call
\* in progress (retest after a wakeup, notify after unlocking, broadcast in
\* close) eventually takes it.  Calls, timeouts and spurious wakeups are not
\* forced.
Fairness ==
    \A t \in Clients :
        /\ WF_vars(PushWake(t))
        /\ WF_vars(PopWake(t))
        /\ WF_vars(PushNotify(t))
        /\ WF_vars(PopNotify(t))
        /\ WF_vars(CloseNotifyFull(t))
        /\ WF_vars(CloseNotifyEmpty(t))

\* The clients use the methods that can wait: push, push_for, pop, pop_for,
\* and close.
BlockingNext ==
    \E t \in Clients :
        \/ ClientPush(t)
        \/ ClientPop(t)
        \/ ClientClose(t)
        \/ PushWake(t)
        \/ PushTimeout(t)
        \/ PushNotify(t)
        \/ PopWake(t)
        \/ PopTimeout(t)
        \/ PopNotify(t)
        \/ CloseNotifyFull(t)
        \/ CloseNotifyEmpty(t)
        \/ SpuriousWake(t)

FairSpec == Init /\ [][BlockingNext]_vars /\ Fairness

\* ------------------------------------------------------------- claims

IsPrefix(s1, s2) == Len(s1) <= Len(s2) /\ s1 = SubSeq(s2, 1, Len(s1))

Done(t) == pc[t] = "done"

\* C1: in every reachable state, under any interleaving of the seven queue
\* methods called by several threads, 0 <= size <= Capacity.
C1_CapacityBound ==
    \A q \in QIds : 0 <= queues[q].size /\ queues[q].size <= Capacity

\* The queue is full and a pusher is blocked on it.
C1_Witness ==
    /\ queues[ClientQueue].size = Capacity
    /\ \E t \in Clients : pc[t] = "waiting" /\ op[t] \in PushOps

\* C2: the events returned by successful pops, in critical-section order, are
\* a prefix of the events accepted by successful pushes, in critical-section
\* order.
C2_FifoPrefix ==
    \A q \in QIds : IsPrefix(popped[q], pushed[q])

\* More events than the ring holds were accepted (the indices wrapped) and at
\* least two were popped.
C2_Witness ==
    /\ Len(pushed[ClientQueue]) > Capacity
    /\ Len(popped[ClientQueue]) >= 2

\* C3 (state part): once the queue is closed no event is accepted any more,
\* the events stored at close time are handed out in FIFO order and nothing
\* else is; a push-like call issued after close returns false, and a pop-like
\* call issued after close never waits.
C3_Closed ==
    \A q \in QIds : queues[q].closed =>
        /\ pushed[q] = atClose[q][1]
        /\ popped[q] \o Contents(queues[q]) = atClose[q][1]
        /\ \A t \in Clients : (tq[t] = q /\ eff[t].closedAtCall) =>
              /\ (op[t] \in PushOps \cup {"try_push"}) => (Done(t) /\ ~retOk[t])
              /\ (op[t] \in PopOps \cup {"try_pop"}) => pc[t] \in {"notify", "done"}

\* C3 (step part): on a closed queue a pop-like call returns nothing only
\* when the queue is empty, and otherwise returns the oldest stored event.
C3_Drain ==
    \A t \in Clients :
        LET q == queues[ClientQueue] IN
        (/\ q.closed
         /\ ClientPop(t) \/ ClientTryPop(t) \/ PopWake(t) \/ PopTimeout(t)
         /\ pc'[t] \in {"notify", "done"})
        => IF q.size = 0
           THEN ~retOk'[t] /\ popped' = popped
           ELSE retOk'[t] /\ retVal'[t] = Head(Contents(q))

\* C3: once close() has been called no later push, try_push or push_for
\* returns true; the events in the queue at close time are still returned by
\* pop, try_pop and pop_for in FIFO order, after which pop returns None.
C3_CloseSemantics == []C3_Closed /\ [][C3_Drain]_vars

\* After a close: a later push was refused, the stored events were drained
\* and a later pop returned None.
C3_Witness ==
    /\ queues[ClientQueue].closed
    /\ Len(atClose[ClientQueue][1]) >= 1
    /\ popped[ClientQueue] = atClose[ClientQueue][1]
    /\ \E t \in Clients :
          op[t] \in PushOps /\ Done(t) /\ eff[t].closedAtCall /\ ~retOk[t]
    /\ \E t \in Clients :
          op[t] \in PopOps /\ Done(t) /\ eff[t].closedAtCall /\ ~retOk[t]

\* C4: a blocking push returns false only if the queue is closed when it
\* returns, and true only after its event has been stored; a blocking pop
\* returns None only if the queue is empty and closed.
C4_BlockingResults ==
    \A t \in Clients :
        LET q == queues[tq[t]] IN
        /\ (op[t] = "push" /\ Done(t) /\ ~retOk[t]) => q.closed
        /\ (op[t] = "push" /\ pc[t] \in {"notify", "done"} /\ retOk[t]) =>
              \E i \in 1 .. Len(pushed[tq[t]]) : pushed[tq[t]][i] = arg[t]
        /\ (op[t] = "pop" /\ Done(t) /\ ~retOk[t]) => (q.closed /\ q.size = 0)

\* A push that had to wait returned false and a pop that had to wait
\* returned None.
C4_Witness ==
    /\ \E t \in Clients :
          op[t] = "pop" /\ Done(t) /\ ~retOk[t] /\ eff[t].pop_blocked_count > 0
    /\ \E t \in Clients : op[t] = "push" /\ Done(t) /\ ~retOk[t]

\* C5: no thread stays blocked on a closed queue: a pusher blocked when the
\* queue is closed eventually returns false, a popper blocked when the queue
\* is closed eventually returns an event or None.
C5_CloseUnblocks ==
    \A t \in Clients :
        /\ (pc[t] = "waiting" /\ op[t] \in PushOps /\ queues[tq[t]].closed)
              ~> (Done(t) /\ ~retOk[t])
        /\ (pc[t] = "waiting" /\ op[t] \in PopOps /\ queues[tq[t]].closed)
              ~> (pc[t] \in {"notify", "done"})

\* A pusher that was blocked on the full queue has returned false after a
\* close.
C5_Witness ==
    \E t \in Clients :
        /\ op[t] = "push" /\ Done(t) /\ ~retOk[t]
        /\ eff[t].push_blocked_count > 0 /\ ~eff[t].closedAtCall
        /\ queues[ClientQueue].closed

\* One step of the queue seen through try_push and try_pop: the call completes
\* in the step, succeeds exactly when its condition holds, and a failing call
\* leaves contents and size as they are.
C6_TryStep ==
    \A t \in Clients :
        LET q == queues[ClientQueue]
            r == queues'[ClientQueue]
        IN /\ ClientTryPush(t) =>
                /\ pc'[t] = "done"
                /\ retOk'[t] <=> (q.size < Capacity /\ ~q.closed)
                /\ retOk'[t] => Contents(r) = Append(Contents(q), arg'[t])
                /\ ~retOk'[t] => (Contents(r) = Contents(q) /\ r.size = q.size)
           /\ ClientTryPop(t) =>
                /\ pc'[t] = "done"
                /\ retOk'[t] <=> q.size > 0
                /\ retOk'[t] =>
                      (retVal'[t] = Head(Contents(q)) /\ Contents(r) = Tail(Contents(q)))
                /\ ~retOk'[t] => (Contents(r) = Contents(q) /\ r.size = q.size)

\* C6: try_push never blocks and returns true exactly when size < capacity
\* and the queue is not closed; try_pop never blocks and returns an event
\* exactly when size > 0; a failing call leaves contents and size unchanged.
C6_TryOps == [][C6_TryStep]_vars

\* A try_push failed on the full queue and a try_pop failed on an empty one.
C6_Witness ==
    /\ queues[ClientQueue].size = Capacity
    /\ \E t \in Clients : op[t] = "try_push" /\ Done(t) /\ why[t] = "full"
    /\ \E t \in Clients : op[t] = "try_pop" /\ Done(t) /\ why[t] = "empty"

TimedOut(t) == Done(t) /\ op[t] \in {"push_for", "pop_for"} /\ why[t] = "timeout"

\* C7 as stated: a push_for or pop_for that times out has changed nothing:
\* contents, size, closed flag and the stats counters are as before the call.
C7_TimeoutNoSideEffect ==
    \A t \in Clients : TimedOut(t) =>
        eff[t] = [NoEffect EXCEPT !.closedAtCall = eff[t].closedAtCall]

\* C7 as amended: a push_for or pop_for that times out has not changed the
\* contents, the size or the closed flag; it has incremented push_count and
\* push_blocked_count (push_for), or pop_count and pop_blocked_count
\* (pop_for), by one each and no other counter.
C7_TimeoutFrame ==
    \A t \in Clients : TimedOut(t) =>
        /\ ~eff[t].touched
        /\ ~retOk[t]
        /\ op[t] = "push_for" =>
              /\ eff[t].push_count = 1 /\ eff[t].push_blocked_count = 1
              /\ eff[t].pop_count = 0 /\ eff[t].pop_blocked_count = 0
        /\ op[t] = "pop_for" =>
              /\ eff[t].pop_count = 1 /\ eff[t].pop_blocked_count = 1
              /\ eff[t].push_count = 0 /\ eff[t].push_blocked_count = 0

\* A push_for timed out on the full queue and a pop_for timed out too.
C7_Witness ==
    /\ \E t \in Clients : TimedOut(t) /\ op[t] = "push_for"
    /\ \E t \in Clients : TimedOut(t) /\ op[t] = "pop_for"

\* One step of the queues: no closed flag is reset, and a close of a closed
\* queue changes no queue.
C8_CloseStep ==
    /\ \A q \in QIds : queues[q].closed => queues'[q].closed
    /\ \A t \in Clients :
          (ClientClose(t) /\ queues[ClientQueue].closed) => queues' = queues

\* C8: close is idempotent and one-way: a close of a queue that is already
\* closed leaves the queue as it is, and is_closed never returns to false.
C8_CloseIdempotent == [][C8_CloseStep]_vars

\* Both threads have completed a close of the same queue.
C8_Witness ==
    /\ queues[ClientQueue].closed
    /\ \A t \in Clients : op[t] = "close" /\ Done(t)

\* A worker is inside operator_->process: it entered with the popped event
\* and process has not returned.
InsideProcess(w) == wpc[w] = "emit"

\* C9: no two worker threads are ever executing process on the same operator
\* instance at the same time.
C9_ExclusiveProcessing ==
    \A w1, w2 \in Workers :
        (w1 # w2 /\ InsideProcess(w1) /\ InsideProcess(w2))
            => winst[w1] # winst[w2]

\* C10: for every instance process is applied to its input events in the
\* order they were pushed into its input queue, and the queue downstream of
\* the one-in/one-out operator receives them in that same order.
C10_PerInstanceFifo ==
    /\ \A i \in InstanceNames :
          Input(i) # NoQueue => IsPrefix(inProcess[i], pushed[Input(i)])
    /\ IsPrefix(pushed[SinkQueue], pushed[SourceQueue])


\* The events the source emitted into the graph.
Emitted == pushed[SourceQueue]

\* C11: when stop() is called after the source has finished and then returns,
\* the sink has consumed as many events as the source emitted (the operator
\* of the pipeline discards none): no event that was in a queue or held by a
\* worker when the drain began is lost.
C11_NoLoss ==
    (state = "Stopped" /\ srcDoneAtStop) => Len(consumed) = Len(Emitted)

\* stop() returned from a Running runtime.
StopReturned == state = "Stopped"

\* C12: after stop() returns from a Running runtime every worker thread and
\* every source thread has exited and been joined, every queue is closed, and
\* shutdown has been called exactly once on every operator.
C12_ShutdownConvergence ==
    StopReturned =>
        /\ \A w \in Workers : wpc[w] = "exited"
        /\ spc = "exited"
        /\ \A t \in RuntimeThreads : pc[t] \in {"idle", "done"}
        /\ \A q \in 1 .. NumQueues : queues[q].closed
        /\ \A i \in InstanceNames : shutdownCalls[i] = 1

\* stop() returned after events went through the pipeline, and the
\* destructor's stop() ran after it.
C12_Witness ==
    /\ StopReturned
    /\ mpc = "gone"
    /\ Len(consumed) >= 2
    /\ NumQueues = 2


\* enum class RuntimeState, each state with the one that follows it.
LifecycleOrder ==
    {<<"Created", "Initialized">>, <<"Initialized", "Running">>,
     <<"Running", "ShuttingDown">>, <<"ShuttingDown", "Stopped">>}

\* C14: under any sequence of init, start, stop and await_completion calls,
\* failing ones and the destructor's stop included, the states of a Runtime
\* are a prefix of Created, Initialized, Running, ShuttingDown, Stopped: it
\* starts in Created and every change of state goes to the next state.
C14_LifecycleMonotone ==
    /\ state = "Created"
    /\ [][state' # state => <<state, state'>> \in LifecycleOrder]_vars

\* The whole sequence was run through, and an init called after it failed.
C14_Witness == state = "Stopped" /\ mcall = "init" /\ merr

\* What a rejected call must leave alone: the state, the threads, the queues
\* and the operators.
RuntimeUntouched ==
    UNCHANGED <<state, wpc, spc, workerRunning, poolRunning, running,
                stopRequested, pc, queues, inputOf, outputsOf, queueCap,
                instances, initCalls, shutdownCalls, current, generated>>

\* C15: init on a runtime that is not Created and start on a runtime that is
\* not Initialized fail with an error, stop on a runtime that is not Running
\* returns normally; each leaves the state, the threads, the queues and the
\* operators unchanged.
C15_MisuseRejected ==
    [][/\ (RtInit /\ state # "Created") =>
              merr' /\ mpc' = "idle" /\ RuntimeUntouched
       /\ (RtStart /\ state # "Initialized") =>
              merr' /\ mpc' = "idle" /\ RuntimeUntouched
       /\ ((RtStop(FALSE) \/ RtStop(TRUE)) /\ state # "Running") =>
              ~merr' /\ mpc' \in {"idle", "gone"} /\ RuntimeUntouched]_vars

\* An init was rejected while the pipeline was running.
C15_Witness ==
    /\ mcall = "init" /\ merr
    /\ state = "Running"
    /\ generated > 0

\* A process or generate call has begun, or a thread that makes them exists.
DeliveryStarted ==
    \/ spc # "exited"
    \/ \E w \in Workers : wpc[w] # "exited"
    \/ \E i \in InstanceNames : inProcess[i] # <<>>
    \/ Emitted # <<>>

\* C16: init is called exactly once on every operator, after all the output
\* queues of its context have been added and before any process or generate
\* call on any operator.
C16_InitOnce ==
    /\ \A i \in InstanceNames :
          /\ initCalls[i] <= 1
          /\ initCalls[i] = 1 => outputsOf[i] = WiredOutputs(edges)[i]
    /\ DeliveryStarted => \A i \in InstanceNames : initCalls[i] = 1

\* Events went through every operator of the pipeline.
C16_Witness ==
    /\ state = "Running"
    /\ inProcess["sink"] # <<>>
    /\ \A i \in InstanceNames : initCalls[i] = 1

\* C17: from the moment shutdown is called on any operator, every source
\* thread and every worker thread has exited, so no process or generate call
\* is in progress or starts later.
C17_ShutdownAfterDelivery ==
    (\E i \in InstanceNames : shutdownCalls[i] > 0) =>
        /\ spc = "exited"
        /\ \A w \in Workers : wpc[w] = "exited"
        /\ \A t \in RuntimeThreads : pc[t] \in {"idle", "done"}

\* The shutdown loop is under way after events were delivered.
C17_Witness ==
    /\ mpc = "shutdown"
    /\ \E i, j \in InstanceNames : shutdownCalls[i] = 1 /\ shutdownCalls[j] = 0
    /\ consumed # <<>>


\* C13: for the pipeline source -> op -> sink run by one worker under
\* RoundRobin, with a batch not larger than the capacity of the queues, a
\* stop() called at any moment while Running eventually returns when the
\* threads are scheduled fairly, also when the source is blocked on a full
\* queue at that moment.
C13_StopReturns == (state = "ShuttingDown") ~> (state = "Stopped")

\* stop() waits for the source thread, which is blocked in push on its full
\* output queue.
C13_Witness ==
    /\ state = "ShuttingDown"
    /\ mpc = "join_sources"
    /\ pc[SourceThread] = "waiting"
    /\ queues[SourceQueue].size = Capacity


\* init has returned normally.
Initialised == state = "Initialized"

\* The number of times queue k is in the output list outs.
Occurrences(outs, k) == Cardinality({n \in DOMAIN outs : outs[n] = k})

\* C18: after init, also for graphs where several edges have the same
\* destination, one queue was created per declared edge, the queue of an edge
\* is once in the output list of the edge's source operator and is the input
\* queue of the edge's destination operator.
C18_EdgeQueues ==
    Initialised =>
        /\ NumQueues = Len(edges)
        /\ \A k \in 1 .. Len(edges) :
              /\ Occurrences(outputsOf[edges[k].from_operator], k) = 1
              /\ inputOf[edges[k].to_operator] = k

\* C19: the queue init creates for an edge has the capacity declared for
\* that edge in connect(from, to, capacity).
C19_EdgeCapacity ==
    Initialised =>
        \A k \in 1 .. Len(edges) : queueCap[k] = edges[k].queue_capacity


\* The number of copies of event v a queue with history h accepted.
Copies(h, v) == Cardinality({n \in DOMAIN h : h[n] = v})

\* The source's emit is inside its loop over the outputs.
Emitting == spc = "emit"

\* The source's emit returns its count to generate.
EmitReturns == spc = "emit" /\ spc' = "loop"

\* Inside emit(event) the push in progress is a blocking push to the output
\* the loop is at, no later output has been offered the event, and every
\* earlier output has one copy of it or is closed.
C20_InOrder ==
    Emitting =>
        LET outs == Outputs("source")
            n == emitIdx[SourceThread]
        IN /\ n \in DOMAIN outs
           /\ op[SourceThread] = "push"
           /\ tq[SourceThread] = outs[n]
           /\ arg[SourceThread] = current
           /\ \A m \in DOMAIN outs :
                 /\ m > n => Copies(pushed[outs[m]], current) = 0
                 /\ m < n => \/ Copies(pushed[outs[m]], current) = 1
                             \/ queues[outs[m]].closed

\* When emit(event) returns, every output has one copy of the event or has
\* none and is closed, the value returned is the number of outputs that
\* accepted it, and a value below the number of outputs comes with a closed
\* output.
C20_OnReturn ==
    EmitReturns =>
        LET outs == Outputs("source")
            v == current
            count == emitCount'[SourceThread]
            got(m) == Copies(pushed'[outs[m]], v)
        IN /\ \A m \in DOMAIN outs :
                 got(m) = 1 \/ (got(m) = 0 /\ queues'[outs[m]].closed)
           /\ count = Cardinality({m \in DOMAIN outs : got(m) = 1})
           /\ count < Len(outs) => \E m \in DOMAIN outs : queues'[outs[m]].closed

\* C20: emit(event) offers the event to the outputs in declaration order
\* with a blocking push, every output that is not closed receives exactly one
\* copy, emit returns the number of outputs that accepted the event, and a
\* return value below the number of outputs occurs only with a closed output.
C20_Emit == []C20_InOrder /\ [][C20_OnReturn]_vars

\* An emit returned 1 for two outputs after an earlier one had reached both,
\* and the source had waited on a full output.
C20_Witness ==
    /\ spc = "loop"
    /\ emitCount[SourceThread] = 1
    /\ Len(pushed[SourceQueue]) # Len(pushed[SinkQueue])
    /\ Copies(pushed[SourceQueue], 1) = 1 /\ Copies(pushed[SinkQueue], 1) = 1
    /\ queues[SourceQueue].stats.push_blocked_count
         + queues[SinkQueue].stats.push_blocked_count > 0


\* The sink's input queue is full.
SinkInputFull == queues[SinkQueue].size = Capacity

\* The operator's input queue is full and the source is blocked in push on it.
SourceBlocked ==
    /\ queues[SourceQueue].size = Capacity
    /\ pc[SourceThread] = "waiting"
    /\ tq[SourceThread] = SourceQueue

\* What the queues and the workers can hold: the sum of the capacities and
\* one event in flight per worker.
HoldingBound == NumQueues * Capacity + NumWorkers

\* C21: in the pipeline with a source that does not run out, when the sink
\* has stopped consuming and its input queue stays full, the operator's input
\* queue becomes full and the source blocks in push, for good; the source
\* has then emitted no more events than the queues and the workers hold.
C21_Backpressure ==
    /\ [](Len(Emitted) <= HoldingBound /\ generated < AmpleCount)
    /\ (<>[]SinkInputFull) => <>[]SourceBlocked

\* Both queues are full, a worker is blocked in emit on the sink's queue and
\* the source is blocked on the operator's queue.
C21_Witness ==
    /\ SinkInputFull
    /\ SourceBlocked
    /\ \E w \in Workers : pc[w] = "waiting" /\ tq[w] = SinkQueue


\* Thread t is suspended inside a queue operation, or has been woken and is
\* about to test its condition again.
BlockedOnQueue(t) == pc[t] \in {"waiting", "woken"}

C23_SourcesNotScheduled ==
    \A w \in Workers :
        /\ ~IsSource(winst[w])
        /\ wpc[w] \in {"batch", "process", "emit"} => winst[w] \in {"op", "sink"}

\* A worker was handed the operator by a scheduler whose list starts with the
\* source, which it probed first.
C23_Witness ==
    /\ IsSource(instances[1])
    /\ \E w \in Workers : winst[w] = "op" /\ wpc[w] = "batch" /\ iterations[w] = 1

\* Worker w's call of next returns null in this step.
NextReturnsNull(w) == W_Next(w) /\ workerRunning[w] /\ winst'[w] = NoInstance

\* C24: for both scheduler variants, when next(w) returns null, and no queue
\* changed during the call, no instance known to the scheduler has a
\* non-empty input queue.
C24_NullMeansNoWork ==
    [][\A w \in Workers :
          NextReturnsNull(w) =>
              \A n \in DOMAIN instances : ~HasWork(instances[n])]_vars


\* Worker w calls next in this step.
NextCalled(w) == W_Next(w) /\ workerRunning[w]

\* The next calls made so far: every worker counts an iteration right before
\* its call.
RECURSIVE NextCalls(_)
NextCalls(W) ==
    IF W = {} THEN 0
    ELSE LET w == CHOOSE v \in W : TRUE IN iterations[w] + NextCalls(W \ {w})

\* C25: after any sequence of next calls, on a scheduler of either variant,
\* with or without instances, total_scheduled is the number of next calls
\* made and idle_cycles the number of them that returned null: every call
\* adds one to total_scheduled, and one to idle_cycles exactly when it
\* returns null.
C25_SchedulerStats ==
    /\ [](schedStats.total_scheduled = NextCalls(Workers))
    /\ [][\A w \in Workers :
             NextCalled(w) =>
                 /\ schedStats'.total_scheduled = schedStats.total_scheduled + 1
                 /\ schedStats'.idle_cycles = schedStats.idle_cycles
                      + (IF winst'[w] = NoInstance THEN 1 ELSE 0)]_vars


\* C26: once request_stop has been called on the source, a generate call
\* that starts returns false without emitting, the source thread leaves its
\* loop when the generate call in progress has returned, and it calls
\* generate no more: nothing is emitted but by the call in progress.
C26_StopRequest ==
    [][stopRequested =>
          /\ spc = "loop" => spc' \in {"loop", "exited"}
          /\ spc = "exited" => spc' = "exited"
          /\ spc # "emit" => Emitted' = Emitted /\ generated' = generated
          /\ spc' = "emit" => current' = current]_vars

\* request_stop was called while the source was inside generate, blocked in
\* emit on a full queue, with events left to generate.
C26_Witness ==
    /\ stopRequested
    /\ spc = "emit"
    /\ pc[SourceThread] = "waiting"
    /\ generated < SourceCount


\* No queue call is in progress.
Quiescent == \A t \in Threads : pc[t] \in {"idle", "done"}

\* C27: under any mix of push, try_push, push_for, pop, try_pop, pop_for and
\* close, whenever no call is in progress, stats().push_count is the number of
\* events the queue accepted, stats().pop_count the number it handed out,
\* stats().current_size is push_count - pop_count and is size(), and
\* stats().capacity is the capacity.
C27_StatsCounts ==
    Quiescent =>
        LET s == QueueStats(queues[ClientQueue]) IN
        /\ s.push_count = Len(pushed[ClientQueue])
        /\ s.pop_count = Len(popped[ClientQueue])
        /\ s.current_size = s.push_count - s.pop_count
        /\ s.current_size = queues[ClientQueue].size
        /\ s.capacity = Capacity

\* Thread t's push or push_for returns in this step, or has stored its event
\* and is left with its notification.
PushEnds(t) ==
    /\ op'[t] \in PushOps
    /\ pc'[t] \in {"notify", "done"}
    /\ \/ pc[t] \in {"waiting", "woken"}
       \/ CanCall(t) /\ arg'[t] # arg[t]

\* The call that ends had been suspended on not_full.
HadWaited(t) == pc[t] \in {"waiting", "woken"}

\* C28: a push or push_for call that had to wait because the queue was full
\* has incremented push_blocked_count exactly once, whether it then
\* succeeded, timed out or was woken by close; a call that did not wait has
\* not incremented it.
C28_BlockedOncePerWait ==
    [][\A t \in Clients :
          PushEnds(t) =>
              eff'[t].push_blocked_count = (IF HadWaited(t) THEN 1 ELSE 0)]_vars


\* Worker w's filter discards the event: its predicate is false.
Discards(w) ==
    /\ wpc[w] = "process"
    /\ winst[w] = "op"
    /\ Outputs("op") # <<>>
    /\ wpc'[w] = "batch"

\* The emit of the operator worker w runs returns 0: every output refused.
EmitReturnsZero(w) ==
    /\ wpc[w] = "emit"
    /\ winst[w] = "op"
    /\ wpc'[w] = "batch"
    /\ emitCount'[w] = 0

\* C29: the operator's events_dropped is incremented exactly in the steps in
\* which it discards an event (a filter whose predicate is false) or its emit
\* returns 0 because all outputs are closed; in the second case
\* events_emitted is not incremented.
C29_DropsCounted ==
    [][/\ opStats'["op"].events_dropped =
             opStats["op"].events_dropped +
                (IF \E w \in Workers : Discards(w) \/ EmitReturnsZero(w)
                 THEN 1 ELSE 0)
       /\ (\E w \in Workers : EmitReturnsZero(w)) =>
             opStats'["op"].events_emitted = opStats["op"].events_emitted]_vars


\* The events stored in the queues of Q.
RECURSIVE Stored(_)
Stored(Q) ==
    IF Q = {} THEN 0
    ELSE LET q == CHOOSE v \in Q : TRUE IN queues[q].size + Stored(Q \ {q})

\* The events worker threads hold: popped by execute_batch, process not yet
\* returned.
RECURSIVE HeldByWorkers(_)
HeldByWorkers(W) ==
    IF W = {} THEN 0
    ELSE LET w == CHOOSE v \in W : TRUE
         IN (IF wpc[w] \in {"process", "emit"} THEN 1 ELSE 0)
            + HeldByWorkers(W \ {w})

\* The event the source thread holds: created by generate, emit not yet
\* returned.
HeldBySource == IF spc = "emit" THEN 1 ELSE 0

EventsInSystem ==
    Stored(DOMAIN queueCap) + HeldByWorkers(Workers) + HeldBySource

\* The sum of the capacities of the queues.
RECURSIVE Capacities(_)
Capacities(Q) ==
    IF Q = {} THEN 0
    ELSE LET q == CHOOSE v \in Q : TRUE IN queueCap[q] + Capacities(Q \ {q})

\* All queue capacities, one event per worker thread, one per source thread.
MemoryBound == Capacities(DOMAIN queueCap) + NumWorkers + 1

\* C30: bounded memory: while the runtime runs, the events stored in queues
\* or held by a worker or source thread between pop or creation and the
\* return of emit are never more than the sum of the queue capacities plus
\* one per worker thread and one per source thread, also with a source that
\* has more events than that and a sink that never returns.
C30_BoundedMemory == running => EventsInSystem <= MemoryBound

\* The bound is met: both queues full, every worker and the source thread
\* holding an event, and the source still has events to produce.
C30_Witness ==
    /\ running
    /\ EventsInSystem = MemoryBound
    /\ generated + 1 < PlentyCount
    /\ SourceBlocked


\* The number of instances of the scheduler.
NumInstances == Len(instances)

\* The instance c + k probes reach, in cyclic order.
Probed(c, k) == instances[((c + k) % NumInstances) + 1]

\* The probes, counted from cursor c, that find a ready instance.
ReadyProbes(c) == {k \in 0 .. NumInstances - 1 : HasWork(Probed(c, k))}

\* The first of them.
FirstProbe(c) == CHOOSE k \in ReadyProbes(c) : \A j \in ReadyProbes(c) : k <= j

\* Worker w's call of next returns in this step.
NextReturns(w) == wpc[w] \in {"scan", "scanLost"} /\ wpc'[w] \in {"top", "batch"}

\* C31: a call next(w) of the RoundRobin scheduler with N > 0 instances
\* probes from w's cursor on in cyclic order: it returns the first ready
\* instance among the next N and leaves the cursor one past it, or returns
\* null with the cursor advanced by N when none of the N is ready; the
\* cursor of every other worker is as before.
C31_RoundRobinScan ==
    [][\A w \in Workers :
          NextReturns(w) =>
              LET c == Cursor(w) IN
              /\ IF ReadyProbes(c) = {}
                 THEN winst'[w] = NoInstance /\ positions'[w] = c + NumInstances
                 ELSE /\ winst'[w] = Probed(c, FirstProbe(c))
                      /\ positions'[w] = c + FirstProbe(c) + 1
              /\ \A v \in Workers \ {w} : positions'[v] = positions[v]]_vars


\* The indices of the instances of partition id: i mod num_workers, i
\* counted from 0.
PartitionIndices(id) == {i \in DOMAIN instances : (i - 1) % NumWorkers = id}

\* The instances of worker w's partition that are ready, by index.
ReadyIn(id) == {i \in PartitionIndices(id) : HasWork(instances[i])}

\* Worker w's call of next has chosen its instance in this step.
NextChooses(w) == wpc[w] = "top" /\ iterations'[w] = iterations[w] + 1

\* Worker w's call of next returns in this step.
StealNextReturns(w) ==
    \/ NextChooses(w) /\ wpc'[w] \in {"top", "batch"}
    \/ wpc[w] \in {"stealing", "stale"} /\ wpc'[w] = "batch"

\* The instance the call returns is of another worker's partition.
FromOtherPartition(w) ==
    \E i \in DOMAIN instances :
        /\ instances[i] = winst'[w]
        /\ i \notin PartitionIndices(WorkerId(w))

\* C32: WorkStealingScheduler::next(w) returns the first ready instance of
\* w's partition when there is one, and else an instance of another worker's
\* partition or null; work_stolen grows by one on the calls that return an
\* instance of another partition and stays as it is on the others; an
\* instance with index i is in partition i mod num_workers and in no other.
C32_WorkStealing ==
    [][\A w \in Pool :
          LET id == WorkerId(w) IN
          /\ NextChooses(w) =>
                IF ReadyIn(id) # {}
                THEN \E i \in ReadyIn(id) :
                        /\ \A j \in ReadyIn(id) : i <= j
                        /\ winst'[w] = instances[i]
                ELSE winst'[w] = NoInstance \/ FromOtherPartition(w)
          /\ StealNextReturns(w) =>
                schedStats'.work_stolen = schedStats.work_stolen +
                    (IF winst'[w] # NoInstance /\ FromOtherPartition(w)
                     THEN 1 ELSE 0)
          /\ \A v \in 0 .. NumWorkers - 1 :
                \A k \in 1 .. Len(PerWorker(v)) :
                    \E i \in PartitionIndices(v) :
                        /\ PerWorker(v)[k] = instances[i]
                        /\ Cardinality({j \in PartitionIndices(v) : j <= i}) = k]_vars


\* Worker w's thread leaves Worker::run in this step.
WorkerExits(w) == wpc[w] # "exited" /\ wpc'[w] = "exited"

\* WorkerPool::stop returns in this step.
PoolStopReturns == mpc = "join_workers" /\ mpc' # "join_workers"

\* Every event popped from the input queue of an instance has gone through
\* that instance's process, in pop order.
AllPoppedProcessed ==
    \A i \in InstanceNames :
        Input(i) # NoQueue => inProcess[i] = popped[Input(i)]

\* C33: a worker thread exits only at the top of its loop, holding no event:
\* when it exits, every event it popped has had process called on it and
\* process has returned; WorkerPool::stop returns only when every worker
\* thread has exited, and then every popped event has been processed.
C33_BatchNotAbandoned ==
    /\ [][/\ \A w \in Pool :
                WorkerExits(w) =>
                    /\ wpc[w] = "top"
                    /\ pc[w] \in {"idle", "done"}
                    /\ (\A v \in Pool \ {w} : wpc[v] \in {"top", "exited"})
                          => AllPoppedProcessed
          /\ PoolStopReturns => \A w \in Pool : wpc[w] = "exited"]_vars
    /\ []((\A w \in Pool : wpc[w] = "exited") => AllPoppedProcessed)

\* WorkerPool::stop has set the worker's flag and waits in join while the
\* worker is inside process with an event it popped.
C33_Witness ==
    /\ mpc = "join_workers"
    /\ \E w \in Pool :
          /\ ~workerRunning[w]
          /\ wpc[w] \in {"process", "emit"}
          /\ popped[SourceQueue] # <<>>


\* Steps of an execute_batch call of thread w: it is entered, pops an event,
\* hands it to process, process returns, the call returns.
BatchEntered(w) == wpc[w] = "top" /\ wpc'[w] = "batch"
BatchPops(w) == wpc[w] = "batch" /\ wpc'[w] = "process"
ProcessCalled(w) == wpc[w] = "process" /\ wpc'[w] # "process"
ProcessReturns(w) == wpc[w] \in {"process", "emit"} /\ wpc'[w] = "batch"
BatchReturns(w) == wpc[w] = "batch" /\ wpc'[w] = "top"

\* C34: execute_batch(max_batch) starts its count at 0; it pops only while
\* the count is below max_batch, hands every event it pops to process before
\* it pops again, and counts it when process returns; it returns its count,
\* at most max_batch, either with max_batch events processed or on a try_pop
\* that found the queue empty; on an instance without input queue it returns
\* 0 and changes nothing.
C34_ExecuteBatch ==
    [][\A w \in Workers :
          LET i == winst[w]
              q == Input(i)
          IN /\ BatchEntered(w) => processed'[w] = 0
             /\ BatchPops(w) =>
                   /\ q # NoQueue
                   /\ processed[w] < ScaledBatch
                   /\ queues[q].size > 0
                   /\ wev'[w] = Head(Contents(queues[q]))
                   /\ popped'[q] = Append(popped[q], wev'[w])
                   /\ processed'[w] = processed[w]
             /\ wpc[w] \in {"process", "emit"} => wev'[w] = wev[w]
             /\ ProcessCalled(w) =>
                   inProcess'[i] = Append(inProcess[i], wev[w])
             /\ ProcessReturns(w) => processed'[w] = processed[w] + 1
             /\ BatchReturns(w) =>
                   /\ processed'[w] = processed[w]
                   /\ processed[w] <= ScaledBatch
                   /\ IF q = NoQueue
                      THEN /\ processed[w] = 0
                           /\ UNCHANGED <<queues, pushed, popped, inProcess,
                                          consumed, opStats>>
                      ELSE \/ processed[w] = ScaledBatch /\ queues' = queues
                           \/ queues[q].size = 0]_vars

\* An execute_batch call is about to return with max_batch events processed
\* while its input queue holds more.
C34_Witness ==
    \E w \in Workers :
        /\ wpc[w] = "batch"
        /\ processed[w] = ScaledBatch
        /\ Input(winst[w]) # NoQueue
        /\ queues[Input(winst[w])].size > 0


\* The k-th value of the sequence: s + (k - 1) d.
SeqValue(k) == SeqStart + (k - 1) * SeqStep

\* Every output has received a prefix of the sequence: no value skipped, none
\* twice, none out of order, and no more than count values.
InSequence ==
    /\ \A q \in QIds :
          /\ Len(pushed[q]) <= SourceCount
          /\ \A k \in 1 .. Len(pushed[q]) : pushed[q][k] = SeqValue(k)
    /\ current = SeqValue(generated + 1)

\* The event of the generate call in progress was accepted by an output.
Accepted == \E q \in QIds : pushed[q] # <<>> /\ pushed[q][Len(pushed[q])] = current

\* generate returns true in this step, its emit having returned.
GenerateReturns == spc = "emit" /\ spc' = "loop"

\* generate returns false in this step.
GenerateEnds == spc = "loop" /\ spc' = "exited"

\* A generate call advances value and count by one event when an output
\* accepted the event, and else records a backpressure event and leaves them;
\* generate returns false after count events.
OnePerCall ==
    /\ GenerateReturns =>
          IF Accepted
          THEN /\ generated' = generated + 1
               /\ current' = current + SeqStep
               /\ opStats'["source"].backpressure_events =
                     opStats["source"].backpressure_events
          ELSE /\ generated' = generated
               /\ current' = current
               /\ opStats'["source"].backpressure_events =
                     opStats["source"].backpressure_events + 1
    /\ GenerateEnds => generated = SourceCount

\* The source has emitted its count events and generate has returned false.
SourceFinished ==
    /\ spc = "exited"
    /\ generated = SourceCount
    /\ \A q \in QIds : ~queues[q].closed => Len(pushed[q]) = SourceCount

\* Output q is closed or has room.
HasRoom(q) == queues[q].closed \/ queues[q].size < Capacity

\* C35 as stated: a SequenceSource with start s, step d and count n that has
\* at least one output that stays open and is drained again and again emits
\* exactly the n values s, s + d, ... in order, one per generate call, and
\* then generate returns false; a call whose emit no output accepts records
\* a backpressure event and does not advance.
C35_AnyOutputDrained ==
    /\ []InSequence
    /\ [][OnePerCall]_vars
    /\ (\E q \in QIds : [](~queues[q].closed) /\ []<>(queues[q].size = 0))
          => <>SourceFinished

\* C35, amended: the same when one output stays open and every output is
\* closed or has room again and again.
C35_EveryOutputDrained ==
    /\ []InSequence
    /\ [][OnePerCall]_vars
    /\ ([]OutputOpen /\ \A q \in QIds : []<>HasRoom(q)) => <>SourceFinished

\* The source has finished with all its events on one output while the other
\* output was closed before the last event.
C35_Witness ==
    /\ SourceFinished
    /\ \E q \in QIds : ~queues[q].closed /\ Len(pushed[q]) = SourceCount
    /\ \E q \in QIds : queues[q].closed /\ Len(pushed[q]) < SourceCount


\* The events queue q accepted, handed out or holds.
Known(q) ==
    {pushed[q][k] : k \in 1 .. Len(pushed[q])}
        \cup {popped[q][k] : k \in 1 .. Len(popped[q])}
        \cup {Contents(queues[q])[k] : k \in 1 .. Len(Contents(queues[q]))}

\* C36: the queue neither loses nor duplicates events: in every state the
\* multiset of events accepted by successful pushes equals the multiset of
\* events returned by successful pops plus the events stored, and no accepted
\* event is returned by more pops than pushes accepted it (the clients offer
\* each event once, so by at most one pop).
C36_Conservation ==
    \A q \in QIds :
        \A e \in Known(q) :
            /\ e # NoEvent
            /\ Occurrences(pushed[q], e) =
                  Occurrences(popped[q], e)
                      + Occurrences(Contents(queues[q]), e)
            /\ Occurrences(pushed[q], e) = 1
            /\ Occurrences(popped[q], e) <= 1

\* The ring has wrapped: more events than it holds were accepted, two
\* consumers have each just been handed a different event, and one event is
\* still stored.
C36_Witness ==
    /\ Len(pushed[ClientQueue]) > Capacity
    /\ queues[ClientQueue].size >= 1
    /\ \A t \in Clients :
          pc[t] = "done" /\ retOk[t] /\ op[t] \in PopOps \cup {"try_pop"}
    /\ \E t, u \in Clients : retVal[t] # retVal[u]


\* No thread is between a wakeup and its retest, or between its critical
\* section and its notify_one.
Settled == \A t \in Threads : pc[t] \in {"idle", "done", "waiting"}

\* t waits in pop although the queue holds an event.
PopStuck(t) ==
    pc[t] = "waiting" /\ op[t] \in PopOps /\ queues[tq[t]].size > 0

\* t waits in push although the queue is open and has room.
PushStuck(t) ==
    /\ pc[t] = "waiting" /\ op[t] \in PushOps
    /\ ~queues[tq[t]].closed /\ queues[tq[t]].size < Capacity

\* C37: the queue has no lost wakeups: no settled state has a thread waiting
\* in pop while the queue is non-empty or waiting in push while the queue is
\* open and not full; and with the woken and notifying threads scheduled, no
\* thread stays waiting in pop while an event stays present, nor in push
\* while room stays present.
C37_NoLostWakeup ==
    /\ [](Settled => \A t \in Users : ~PopStuck(t) /\ ~PushStuck(t))
    /\ \A t \in Users : []<>(~PopStuck(t)) /\ []<>(~PushStuck(t))

\* Two consumers were blocked on the empty queue and two events were pushed:
\* each push woke one of them, both have returned with an event.
C37_Witness ==
    /\ Len(pushed[ClientQueue]) = 2
    /\ \E t, u \in Users :
          /\ t # u
          /\ \A v \in {t, u} :
                /\ op[v] = "pop" /\ pc[v] = "done" /\ retOk[v]
                /\ eff[v].pop_blocked_count > 0


\* C38: RoundRobin does not starve an instance: while an instance's input
\* queue stays non-empty, the calls of next(w) in a row that hand worker w
\* another instance or none are fewer than N, the number of instances; the
\* N-th call at the latest hands it to w.
C38_NoStarvation ==
    \A w \in Workers : \A i \in InstanceNames : passed[w][i] < NumInstances


\* Worker w waits in the operator's emit, in push on the sink's input queue.
BlockedInEmit(w) ==
    wpc[w] = "emit" /\ pc[w] = "waiting" /\ tq[w] = Input("sink")

\* C39: under WorkStealing with a single worker the pipeline source ->
\* operator -> sink makes progress for every order of the instances: the
\* worker does not stay blocked for ever in the operator's emit on the full
\* sink queue, every event the source pushed is eventually consumed by the
\* sink, and a stop() that was called eventually returns.
C39_Progress ==
    /\ \A w \in Workers : []<>(~BlockedInEmit(w))
    /\ \A k \in 1 .. SourceCount :
          (Len(pushed[Input("op")]) >= k) ~> (Len(consumed) >= k)
    /\ (state = "ShuttingDown") ~> (state = "Stopped")

====
